---- MODULE Spec2Model ----
(***************************************************************************)
(* CloudScope: the availability differencing engine.                       *)
(*                                                                         *)
(*   - Tracker  (src/src/core/tracker.py): update(fetched, fetch_time)     *)
(*   - Monitor  (src/src/monitor.py): poll(), with its own differencing    *)
(*     (_analyze_availability) and session logic (_update_time_state)      *)
(*                                                                         *)
(* Times are datetimes, modelled as integers (seconds); an Optional        *)
(* datetime that is None is modelled as None (-1), below every time.       *)
(* Dictionaries are functions whose DOMAIN is the key set.                 *)
(*                                                                         *)
(*   - AllowSet (src/src/data_structures/allow.py): construction           *)
(*     (_validate_characters, _compute_computed_set) and is_allowed.       *)
(*     A str is a sequence of one-character strings; re.match is           *)
(*     evaluated as Python evaluates it: "." does not match a newline      *)
(*     and "$" also matches just before a newline that ends the string.    *)
(***************************************************************************)
EXTENDS Integers, FiniteSets, Sequences, TLC

\* ------------------------------------------------------------------ bounds
\* The datetimes of a run are 0, 10, ..., 10 * MaxTick.
MaxTick == 2

\* A run makes at most MaxCalls calls of update() / poll().
MaxCalls == 3

\* The longest allow_set pattern drawn from PatternChars.
MaxLen == 2

Times == {10 * k : k \in 0..MaxTick}

\* Optional[datetime] = None
None == -1

\* ------------------------------------------------------------ value types
\* InstanceType(name, description, region): a frozen pydantic model; its
\* hash and equality are over all three fields.
InstanceType(n, d, r) == [name |-> n, description |-> d, region |-> r]

A_east == InstanceType("A", "d1", "us-east-1")

A_east_redescribed == InstanceType("A", "d2", "us-east-1")

B_west == InstanceType("B", "d1", "us-west-1")

\* The instance types the inventory API can report in a run.
InstanceTypes == {A_east, A_east_redescribed, B_west}

\* InstanceAvailability(instance_type, start_time, last_time_available)
InstanceAvailability(it, st, lt) ==
    [instance_type |-> it, start_time |-> st, last_time_available |-> lt]

\* Variant: update() also restarts start_time.
AvailabilityUpdateRestart(a, current_time) ==
    [a EXCEPT !.start_time = current_time, !.last_time_available = current_time]

\* Variant: update() writes the time into start_time.
AvailabilityUpdateStartTime(a, current_time) ==
    [a EXCEPT !.start_time = current_time]

\* InstanceAvailability.update(current_time): only last_time_available moves.
AvailabilityUpdate(a, current_time) ==
    [a EXCEPT !.last_time_available = current_time]

\* The times a fetched record can carry when update(fetched, fetch_time) is
\* called: the fetcher stamps both with the fetch time (lambda_api.py
\* 126-130); the test generator stamps a start in the past and a later last
\* time, unrelated to the fetch time (generators.py 47-48).
Stamps(fetch_time) == {<<fetch_time, fetch_time>>, <<0, 10 * MaxTick>>}

\* A fetched dictionary: instance_type -> InstanceAvailability, every record
\* carrying the same stamp.
Fetched(S, stamp) ==
    [k \in S |-> InstanceAvailability(k, stamp[1], stamp[2])]

Keys(m) == DOMAIN m

EmptyDict == [k \in {} |-> None]

\* ---------------------------------------------------------------- Tracker
\* Tracker(start_time=...): the state after construction.
FreshTracker ==
    [ has_ever_observed_instances |-> FALSE,
      last_fetch_time             |-> None,
      session_start_time          |-> None,
      session_end_time            |-> None,
      current_availabilities      |-> EmptyDict,
      new_availabilities          |-> EmptyDict,
      updated_availabilities      |-> EmptyDict,
      removed_availabilities      |-> EmptyDict ]

\* Variant: every fetched key is reported as new.
NewOfAllFetched(fetched, cur) == fetched

\* Variant: a fetched key is new only if no current key has its name and
\* region (description not part of the identity).
NewOfByNameRegion(fetched, cur) ==
    [k \in {x \in Keys(fetched) :
               \A c \in Keys(cur) : ~(c.name = x.name /\ c.region = x.region)}
       |-> fetched[k]]

\* Variant: a new record is rebuilt from the fetched start_time alone.
NewOfRebuilt(fetched, cur) ==
    [k \in {x \in Keys(fetched) : x \notin Keys(cur)} |->
        InstanceAvailability(k, fetched[k].start_time, fetched[k].start_time)]

\* tracker.py 69-72: a fetched key absent from current is new and maps to
\* the fetched record itself.
NewOf(fetched, cur) ==
    [k \in {x \in Keys(fetched) : x \notin Keys(cur)} |-> fetched[k]]

\* Variant: an updated key maps to the fetched record (replace wholesale).
UpdatedOfReplaced(fetched, cur, fetch_time) ==
    [k \in {x \in Keys(fetched) : x \in Keys(cur)} |-> fetched[k]]

\* Variant: an updated key keeps the current record's last_time_available
\* only if the fetched record carries no later one.
UpdatedOfLatest(fetched, cur, fetch_time) ==
    [k \in {x \in Keys(fetched) : x \in Keys(cur)} |->
        AvailabilityUpdate(cur[k],
            IF fetched[k].last_time_available > fetch_time
            THEN fetched[k].last_time_available
            ELSE fetch_time)]

\* tracker.py 73-79: a fetched key present in current is updated and maps to
\* the record already in current, after availability.update(fetch_time).
UpdatedOf(fetched, cur, fetch_time) ==
    [k \in {x \in Keys(fetched) : x \in Keys(cur)} |->
        AvailabilityUpdate(cur[k], fetch_time)]

\* Variant: every current key is reported as removed.
RemovedOfAllCurrent(fetched, cur) == cur

\* tracker.py 81-84: a current key absent from fetched is removed and maps
\* to the record of current (which the loop above did not touch).
RemovedOf(fetched, cur) ==
    [k \in {x \in Keys(cur) : x \notin Keys(fetched)} |-> cur[k]]

\* Variant: the session start is stamped when the session ends.
SessionStartOfAtEnd(session_start_time, fetched, cur, fetch_time) ==
    IF Keys(cur) # {} /\ Keys(fetched) = {}
    THEN fetch_time
    ELSE session_start_time

\* Variant: the session start is stamped whenever a snapshot brings a key
\* that current did not hold.
SessionStartOfOnNewKey(session_start_time, fetched, cur, fetch_time) ==
    IF Keys(fetched) \ Keys(cur) # {}
    THEN fetch_time
    ELSE session_start_time

\* tracker.py 88-89
SessionStartOf(session_start_time, fetched, cur, fetch_time) ==
    IF Keys(cur) = {} /\ Keys(fetched) # {}
    THEN fetch_time
    ELSE session_start_time

\* tracker.py 91-92
SessionEndOf(session_end_time, fetched, cur, fetch_time) ==
    IF Keys(cur) = {} /\ Keys(fetched) # {}
    THEN session_end_time
    ELSE IF Keys(cur) # {} /\ Keys(fetched) = {}
         THEN fetch_time
         ELSE session_end_time

\* Variant: the flag follows the latest snapshot.
HasEverObservedOfLatest(has_ever_observed_instances, fetched) ==
    Cardinality(Keys(fetched)) > 0

\* tracker.py 59-61
HasEverObservedOf(has_ever_observed_instances, fetched) ==
    IF ~has_ever_observed_instances /\ Cardinality(Keys(fetched)) > 0
    THEN TRUE
    ELSE has_ever_observed_instances

\* Variant: the first poll lasts until an instance has been observed.
IsFirstPollUntilObserved(tr) == ~tr.has_ever_observed_instances

\* Tracker.is_first_poll(), tracker.py 22-23
IsFirstPoll(tr) == tr.last_fetch_time = None

\* tracker.py 98-100: {} updated with new, then with updated.
MergeDicts(a, b) ==
    [k \in Keys(a) \cup Keys(b) |-> IF k \in Keys(b) THEN b[k] ELSE a[k]]

\* Variant: update() stamps every record of current with fetch_time before
\* it looks for the removed ones.
UpdateStampingAll(tr, fetched, fetch_time) ==
    LET cur == [k \in Keys(tr.current_availabilities) |->
                  AvailabilityUpdate(tr.current_availabilities[k], fetch_time)]
        new == NewOf(fetched, cur)
        upd == UpdatedOf(fetched, cur, fetch_time)
        rem == RemovedOf(fetched, cur)
    IN  [ has_ever_observed_instances |->
              HasEverObservedOf(tr.has_ever_observed_instances, fetched),
          last_fetch_time        |-> fetch_time,
          session_start_time     |->
              SessionStartOf(tr.session_start_time, fetched, cur, fetch_time),
          session_end_time       |->
              SessionEndOf(tr.session_end_time, fetched, cur, fetch_time),
          current_availabilities |-> MergeDicts(MergeDicts(EmptyDict, new), upd),
          new_availabilities     |-> new,
          updated_availabilities |-> upd,
          removed_availabilities |-> rem ]

\* Tracker.update(fetched_availabilities, fetch_time), tracker.py 52-100.
Update(tr, fetched, fetch_time) ==
    LET cur == tr.current_availabilities
        new == NewOf(fetched, cur)
        upd == UpdatedOf(fetched, cur, fetch_time)
        rem == RemovedOf(fetched, cur)
    IN  [ has_ever_observed_instances |->
              HasEverObservedOf(tr.has_ever_observed_instances, fetched),
          last_fetch_time        |-> fetch_time,
          session_start_time     |->
              SessionStartOf(tr.session_start_time, fetched, cur, fetch_time),
          session_end_time       |->
              SessionEndOf(tr.session_end_time, fetched, cur, fetch_time),
          current_availabilities |-> MergeDicts(MergeDicts(EmptyDict, new), upd),
          new_availabilities     |-> new,
          updated_availabilities |-> upd,
          removed_availabilities |-> rem ]

\* --------------------------------------------------------- legacy Tracker
\* Tracker(start_time=...) of src/src/tracker.py, 9-20, after construction;
\* raised is the exception the last call ended with.
FreshLegacyTracker ==
    [ has_ever_observed_instances |-> FALSE,
      last_fetch_time             |-> None,
      _session_start_time         |-> None,
      _session_end_time           |-> None,
      current_availabilities      |-> EmptyDict,
      new_availabilities          |-> EmptyDict,
      updated_availabilities      |-> EmptyDict,
      removed_availabilities      |-> EmptyDict,
      raised                      |-> "none" ]

\* InstanceAvailability.__eq__ of src/src/data_structures.py, 22-24: only
\* the instance_type fields are compared.
LegacyAvailabilityEq(a, b) == a.instance_type = b.instance_type

\* "a != b": the class defines no __ne__, so Python answers not a.__eq__(b).
LegacyAvailabilityNe(a, b) == ~LegacyAvailabilityEq(a, b)

\* tracker.py 75-77: the fetched keys that are not current.
LegacyNewOf(fetched, cur) ==
    [k \in {x \in Keys(fetched) : x \notin Keys(cur)} |-> fetched[k]]

\* tracker.py 75-79: the fetched keys that are current and whose current
\* record "!=" the fetched one.
LegacyUpdatedOf(fetched, cur) ==
    [k \in {x \in Keys(fetched) : x \in Keys(cur) /\ LegacyAvailabilityNe(cur[x], fetched[x])}
       |-> fetched[k]]

\* tracker.py 82-84.
LegacyRemovedOf(fetched, cur) ==
    [k \in {x \in Keys(cur) : x \notin Keys(fetched)} |-> cur[k]]

\* Tracker.update(fetched_availabilities, fetch_time) of the legacy
\* tracker, 58-101. Line 90 calls self._log_instance_changes, which the
\* class does not define: the call ends there with AttributeError, after
\* the assignments of lines 63-87 and before the session times are updated.
LegacyUpdate(tr, fetched, fetch_time) ==
    LET cur == tr.current_availabilities
    IN  [ has_ever_observed_instances |->
              tr.has_ever_observed_instances \/ Cardinality(Keys(fetched)) > 0,
          last_fetch_time        |-> fetch_time,
          _session_start_time    |-> tr._session_start_time,
          _session_end_time      |-> tr._session_end_time,
          current_availabilities |-> fetched,
          new_availabilities     |-> LegacyNewOf(fetched, cur),
          updated_availabilities |-> LegacyUpdatedOf(fetched, cur),
          removed_availabilities |-> LegacyRemovedOf(fetched, cur),
          raised                 |-> "AttributeError" ]

\* ------------------------------------------------------------ legacy loop
\* The (instance type, region) pairs the API can report with capacity.
LegacyPairs == {<<"A", "us-east-1">>, <<"B", "us-west-1">>}

\* job_instance_availability.py 27 and 87-90: the module's instance_map and
\* the locals of monitor_instance_types before the first iteration; logged
\* and newline are what the last iteration wrote.
FreshLegacyLoop ==
    [ instance_map                        |-> EmptyDict,
      is_first_iteration                  |-> TRUE,
      first_unavailability_time           |-> None,
      last_status_found_available_status  |-> FALSE,
      logged                              |-> {},
      newline                             |-> FALSE ]

\* fetch_instance_types(api_key), 62-82: the pairs with capacity in the data
\* returned; a connection error and a non-200 answer both return (set(), {}).
FetchInstanceTypes(outcome, S) == IF outcome = "ok" THEN S ELSE {}

\* One iteration of the loop of monitor_instance_types, 93-145, for the
\* pairs with capacity in data, datetime.now() reading t.
MonitorInstanceTypesIteration(lp, data_pairs, t) ==
    LET current_available == data_pairs
        added   == {key \in current_available : key \notin Keys(lp.instance_map)}
        dropped == {key \in Keys(lp.instance_map) : key \notin current_available}
        found_available == added # {}
        some_available  == Cardinality(current_available) > 0
    IN  [ instance_map |->
              [key \in (Keys(lp.instance_map) \cup added) \ dropped |->
                  IF key \in added THEN t ELSE lp.instance_map[key]],
          is_first_iteration |-> FALSE,
          first_unavailability_time |->
              IF some_available THEN None
              ELSE IF lp.first_unavailability_time = None THEN t
              ELSE lp.first_unavailability_time,
          last_status_found_available_status |-> found_available,
          logged |-> {<<key, "Available", t>> : key \in added} \cup
                     {<<key, "Not Available", lp.instance_map[key]>> : key \in dropped},
          newline |-> /\ lp.last_status_found_available_status # found_available
                      /\ ~lp.is_first_iteration ]

\* ---------------------------------------------------------------- console
\* Tracker.start_time (tracker.py 10), the time the process started: before
\* every fetch.
TrackerStartTime == -10

\* Tracker.is_session_active(), tracker.py 25-26
IsSessionActive(tr) == Cardinality(Keys(tr.current_availabilities)) > 0

\* Tracker.get_current_names(), tracker.py 28-29
GetCurrentNames(tr) ==
    {k.name : k \in Keys(tr.current_availabilities)}

\* render_to_console(), console.py 34-75: the line printed and the time its
\* duration is counted from; current_time - None raises TypeError.
RenderToConsole(is_available, instance_names, session_start_time, session_end_time, start_time) ==
    IF is_available
    THEN IF session_start_time = None
         THEN [raised |-> TRUE, line |-> "none", names |-> {},
               reference_time |-> None]
         ELSE [raised |-> FALSE, line |-> "Available Instances",
               names |-> instance_names, reference_time |-> session_start_time]
    ELSE IF session_start_time # None
    THEN [raised |-> FALSE, line |-> "Session started at", names |-> {},
          reference_time |-> session_start_time]
    ELSE IF session_end_time # None
    THEN [raised |-> FALSE, line |-> "Last available at", names |-> {},
          reference_time |-> session_end_time]
    ELSE [raised |-> FALSE, line |-> "Started at", names |-> {},
          reference_time |-> start_time]

\* console.py 21: "tracker.is_first_poll" names the bound method without
\* calling it, and a bound method is true.
IsFirstPollAttribute(tr) == TRUE

\* render_console_output(tracker), console.py 15-31: whether a blank line
\* is printed first, and what render_to_console prints.
RenderConsoleOutput(tr) ==
    [ newline |-> /\ \/ Cardinality(Keys(tr.new_availabilities)) > 0
                     \/ Cardinality(Keys(tr.removed_availabilities)) > 0
                  /\ tr.has_ever_observed_instances
                  /\ ~IsFirstPollAttribute(tr),
      out     |-> RenderToConsole(IsSessionActive(tr), GetCurrentNames(tr),
                                  tr.session_start_time, tr.session_end_time,
                                  TrackerStartTime) ]

\* ---------------------------------------------------------------- Monitor
\* lambda_api.static_dict_of_known_regions().keys()
KnownRegions ==
    { "us-east-1", "us-west-1", "us-west-2", "us-west-3", "us-midwest-1",
      "us-south-1", "europe-central-1", "me-west-1", "asia-south-1",
      "asia-northeast-1", "asia-northeast-2" }

\* A region the static table does not hold, and an offering in it.
new_region == "us-foo-1"

with_new_region == InstanceType("C", "d1", new_region)

\* The instance types the inventory API can report to a Monitor: in the
\* runs that watch the regions, one of a known and one of a new region.
MonitorInstanceTypes(d) ==
    IF d = "regions" THEN {A_east, with_new_region}
    ELSE IF d = "throttle" THEN {A_east}
    ELSE InstanceTypes

Regions == KnownRegions \cup {new_region}

\* No alert has been logged for any region.
NoAlerts == [r \in Regions |-> 0]

\* Monitor(config=...): the state after construction.
FreshMonitor ==
    [ current_availabilities |-> EmptyDict,
      did_observe_instances  |-> FALSE,
      session_start_time     |-> None,
      session_end_time       |-> None,
      is_first_poll          |-> TRUE,
      new_logged_regions     |-> {} ]

\* What one poll() reported: the three dictionaries of the differencing
\* step, the log lines of _log_instance_changes, the blank line of
\* _render_console_output and the alerts of _detect_new_regions.
NoOutput ==
    [ skipped |-> FALSE,
      new     |-> EmptyDict,
      updated |-> EmptyDict,
      removed |-> EmptyDict,
      logged  |-> {},
      newline |-> FALSE,
      alerts  |-> {} ]

\* fetch_instance_availabilities(api_key): (None, []) on a connection error
\* or a non-200 response, else (fetch_time, records stamped fetch_time).
FetchOutcomes == {"ok", "connection_error", "http_error"}

FetchInstanceAvailabilities(outcome, S, t) ==
    IF outcome = "ok"
    THEN [fetch_time |-> t, fetched |-> Fetched(S, <<t, t>>)]
    ELSE [fetch_time |-> None, fetched |-> EmptyDict]

\* Monitor._analyze_availability(fetch_time, fetched, current), 146-174.
AnalyzeAvailability(fetch_time, fetched, cur) ==
    [ new |->
        [k \in {fetched[x].instance_type : x \in
                  {y \in Keys(fetched) : fetched[y].instance_type \notin Keys(cur)}}
           |-> fetched[k]],
      updated |->
        [k \in {fetched[x].instance_type : x \in
                  {y \in Keys(fetched) : fetched[y].instance_type \in Keys(cur)}}
           |-> AvailabilityUpdate(cur[k], fetch_time)],
      removed |->
        [k \in {cur[x].instance_type : x \in
                  {y \in Keys(cur) : cur[y].instance_type \notin Keys(fetched)}}
           |-> cur[k]] ]

\* Variant: the end of a session leaves session_start_time as it was.
UpdateTimeStateKeepStart(did_observe_instances, current_availabilities, session_start_time, session_end_time, fetch_time) ==
    IF ~did_observe_instances /\ ~current_availabilities
    THEN [branch |-> "never_observed", did_observe_instances |-> did_observe_instances,
          session_start_time |-> None, session_end_time |-> None]
    ELSE IF session_start_time = None /\ current_availabilities
    THEN [branch |-> "session_start", did_observe_instances |-> TRUE,
          session_start_time |-> fetch_time, session_end_time |-> None]
    ELSE IF session_end_time = None /\ ~current_availabilities
    THEN [branch |-> "session_end", did_observe_instances |-> did_observe_instances,
          session_start_time |-> session_start_time, session_end_time |-> fetch_time]
    ELSE [branch |-> "in_session", did_observe_instances |-> did_observe_instances,
          session_start_time |-> session_start_time, session_end_time |-> session_end_time]

\* Variant: the two pass branches also require the other bound to be None.
UpdateTimeStateOneBoundOnly(did_observe_instances, current_availabilities, session_start_time, session_end_time, fetch_time) ==
    IF ~did_observe_instances /\ ~current_availabilities
    THEN [branch |-> "never_observed", did_observe_instances |-> did_observe_instances,
          session_start_time |-> None, session_end_time |-> None]
    ELSE IF session_start_time = None /\ current_availabilities
    THEN [branch |-> "session_start", did_observe_instances |-> TRUE,
          session_start_time |-> fetch_time, session_end_time |-> None]
    ELSE IF session_end_time = None /\ ~current_availabilities
    THEN [branch |-> "session_end", did_observe_instances |-> did_observe_instances,
          session_start_time |-> None, session_end_time |-> fetch_time]
    ELSE IF session_start_time # None /\ session_end_time = None /\ current_availabilities
    THEN [branch |-> "in_session", did_observe_instances |-> did_observe_instances,
          session_start_time |-> session_start_time, session_end_time |-> session_end_time]
    ELSE IF session_end_time # None /\ session_start_time = None /\ ~current_availabilities
    THEN [branch |-> "after_session", did_observe_instances |-> did_observe_instances,
          session_start_time |-> session_start_time, session_end_time |-> session_end_time]
    ELSE [branch |-> "invalid_state", did_observe_instances |-> did_observe_instances,
          session_start_time |-> session_start_time, session_end_time |-> session_end_time]

\* Monitor._update_time_state, 190-227: the branch taken and its result.
UpdateTimeState(did_observe_instances, current_availabilities, session_start_time, session_end_time, fetch_time) ==
    IF ~did_observe_instances /\ ~current_availabilities
    THEN [branch |-> "never_observed", did_observe_instances |-> did_observe_instances,
          session_start_time |-> None, session_end_time |-> None]
    ELSE IF session_start_time = None /\ current_availabilities
    THEN [branch |-> "session_start", did_observe_instances |-> TRUE,
          session_start_time |-> fetch_time, session_end_time |-> None]
    ELSE IF session_end_time = None /\ ~current_availabilities
    THEN [branch |-> "session_end", did_observe_instances |-> did_observe_instances,
          session_start_time |-> None, session_end_time |-> fetch_time]
    ELSE IF session_start_time # None /\ current_availabilities
    THEN [branch |-> "in_session", did_observe_instances |-> did_observe_instances,
          session_start_time |-> session_start_time, session_end_time |-> session_end_time]
    ELSE IF session_end_time # None /\ ~current_availabilities
    THEN [branch |-> "after_session", did_observe_instances |-> did_observe_instances,
          session_start_time |-> session_start_time, session_end_time |-> session_end_time]
    ELSE [branch |-> "invalid_state", did_observe_instances |-> did_observe_instances,
          session_start_time |-> session_start_time, session_end_time |-> session_end_time]

\* Monitor._analyze_availability_names(fetched, current), 116-144.
AnalyzeAvailabilityNames(fetched, cur) ==
    LET fetched_names == {fetched[k].instance_type.name : k \in Keys(fetched)}
        current_names == {cur[k].instance_type.name : k \in Keys(cur)}
    IN  [ new_names     |-> {n \in fetched_names : n \notin current_names},
          current_names |-> fetched_names,
          removed_names |-> {n \in current_names : n \notin fetched_names} ]

\* Variant: every call alerts for each region outside the known table.
DetectNewRegionsEveryCall(availabilities, new_logged_regions) ==
    LET current_available_regions == {k.region : k \in Keys(availabilities)}
        new_regions == current_available_regions \ KnownRegions
    IN  [ alerts             |-> new_regions,
          new_logged_regions |-> new_logged_regions \cup new_regions ]

\* Monitor._detect_new_regions, 229-255.
DetectNewRegions(availabilities, new_logged_regions) ==
    LET current_available_regions == {k.region : k \in Keys(availabilities)}
        new_regions == current_available_regions \ KnownRegions
    IN  [ alerts             |-> {r \in new_regions : r \notin new_logged_regions},
          new_logged_regions |-> new_logged_regions \cup new_regions ]

\* Monitor.poll(), 51-86: the cycle after a successful fetch: the monitor
\* after the call and what the call reported.
PollCycle(mon, fetch_time, fetched) ==
    LET an    == AnalyzeAvailability(fetch_time, fetched, mon.current_availabilities)
        cur   == MergeDicts(an.new, an.updated)
        ts    == UpdateTimeState(mon.did_observe_instances, Keys(cur) # {},
                                 mon.session_start_time, mon.session_end_time,
                                 fetch_time)
        names == AnalyzeAvailabilityNames(fetched, cur)
        reg   == DetectNewRegions(cur, mon.new_logged_regions)
    IN  [ monitor |->
            [ current_availabilities |-> cur,
              did_observe_instances  |-> ts.did_observe_instances,
              session_start_time     |-> ts.session_start_time,
              session_end_time       |-> ts.session_end_time,
              is_first_poll          |-> FALSE,
              new_logged_regions     |-> reg.new_logged_regions ],
          out |->
            [ skipped |-> FALSE,
              new     |-> an.new,
              updated |-> an.updated,
              removed |-> an.removed,
              logged  |-> {<<k, "Available">> : k \in Keys(an.new)} \cup
                          {<<k, "Unavailable">> : k \in Keys(an.removed)},
              newline |-> /\ (names.new_names # {} \/ names.removed_names # {})
                          /\ ts.did_observe_instances
                          /\ ~mon.is_first_poll,
              alerts  |-> reg.alerts ] ]

\* Variant: poll() without the early return on a failed fetch.
PollWithoutSkip(mon, fetch_time, fetched) ==
    PollCycle(mon, fetch_time, fetched)

\* Monitor.poll(), 36-86, given what the fetch returned: a fetch_time of
\* None skips the cycle.
Poll(mon, fetch_time, fetched) ==
    IF fetch_time = None
    THEN [monitor |-> mon, out |-> [NoOutput EXCEPT !.skipped = TRUE]]
    ELSE PollCycle(mon, fetch_time, fetched)

\* --------------------------------------------------------------- AllowSet
NL == "\n"

Lower ==
    {"a", "b", "c", "d", "e", "f", "g", "h", "i", "j", "k", "l", "m",
     "n", "o", "p", "q", "r", "s", "t", "u", "v", "w", "x", "y", "z"}

Upper ==
    {"A", "B", "C", "D", "E", "F", "G", "H", "I", "J", "K", "L", "M",
     "N", "O", "P", "Q", "R", "S", "T", "U", "V", "W", "X", "Y", "Z"}

Digits == {"0", "1", "2", "3", "4", "5", "6", "7", "8", "9"}

\* allow.py 28: the character class [*a-zA-Z0-9-_]
ClassChars == {"*", "-", "_"} \cup Lower \cup Upper \cup Digits

Range(seq) == {seq[i] : i \in DOMAIN seq}

\* Variant: "$" matches at the very end of the string only.
ValidValueStrict(value) == \A i \in DOMAIN value : value[i] \in ClassChars

\* allow.py 28-34: re.match(r"^[*a-zA-Z0-9-_]*$", value). The class is
\* repeated over a prefix of value and "$" then matches at the end of the
\* string or just before a newline that ends it.
ValidValue(value) ==
    \E n \in 0..Len(value) :
        /\ \A i \in 1..n : value[i] \in ClassChars
        /\ \/ n = Len(value)
           \/ n + 1 = Len(value) /\ value[n + 1] = NL

\* AllowSet._validate_characters(), allow.py 25-34: full_set, then allow_set.
ValidateCharacters(full_set, allow_set) ==
    /\ \A value \in full_set : ValidValue(value)
    /\ \A value \in allow_set : ValidValue(value)

\* allow.py 58: "*" in value
HasWildcard(value) == "*" \in Range(value)

\* allow.py 59-60: re.match(f"^{value.replace('*', '.*')}$", x) for one
\* value. Every character of a validated value but "*" stands for itself;
\* ".*" runs over characters other than a newline.
RECURSIVE RegexMatch(_, _)
RegexMatch(value, x) ==
    IF value = <<>>
    THEN x = <<>> \/ x = <<NL>>
    ELSE IF Head(value) = "*"
    THEN \/ RegexMatch(Tail(value), x)
         \/ x # <<>> /\ Head(x) # NL /\ RegexMatch(value, Tail(x))
    ELSE x # <<>> /\ Head(x) = Head(value) /\ RegexMatch(Tail(value), Tail(x))

\* allow.py 59-60: the regex joins, with "|", the patterns of every value of
\* allow_set, and filter() keeps the members of full_set it matches.
NewInstances(full_set, allow_set) ==
    {x \in full_set : \E value \in allow_set : RegexMatch(value, x)}

\* Variant: a value that is not in full_set is passed over.
RECURSIVE ComputeLoopSkipUnknown(_, _, _, _)
ComputeLoopSkipUnknown(order, full_set, allow_set, buffer) ==
    IF order = <<>>
    THEN [raised |-> FALSE, buffer |-> buffer]
    ELSE LET value == Head(order)
         IN  IF HasWildcard(value)
             THEN ComputeLoopSkipUnknown(Tail(order), full_set, allow_set,
                                         buffer \cup NewInstances(full_set, allow_set))
             ELSE IF value \in full_set
             THEN ComputeLoopSkipUnknown(Tail(order), full_set, allow_set,
                                         buffer \cup {value})
             ELSE ComputeLoopSkipUnknown(Tail(order), full_set, allow_set, buffer)

\* allow.py 54-65: "for value in self.allow_set", the set being visited in
\* the order `order`; a value without "*" that is not in full_set raises.
RECURSIVE ComputeLoop(_, _, _, _)
ComputeLoop(order, full_set, allow_set, buffer) ==
    IF order = <<>>
    THEN [raised |-> FALSE, buffer |-> buffer]
    ELSE LET value == Head(order)
         IN  IF HasWildcard(value)
             THEN ComputeLoop(Tail(order), full_set, allow_set,
                              buffer \cup NewInstances(full_set, allow_set))
             ELSE IF value \in full_set
             THEN ComputeLoop(Tail(order), full_set, allow_set,
                              buffer \cup {value})
             ELSE [raised |-> TRUE, buffer |-> buffer]

\* What a construction leaves: the object, or the ValueError raised.
Constructed(full_set, allow_set, computed_set) ==
    [status |-> "ok", error |-> "none", full_set |-> full_set,
     allow_set |-> allow_set, computed_set |-> computed_set]

Raised(full_set, allow_set, error) ==
    [status |-> "error", error |-> error, full_set |-> full_set,
     allow_set |-> allow_set, computed_set |-> {}]

NoAllowSet ==
    [status |-> "none", error |-> "none", full_set |-> {},
     allow_set |-> {}, computed_set |-> {}]

\* Variant: an empty allow_set allows nothing.
ComputeComputedSetEmptyIsNone(full_set, allow_set, order) ==
    IF allow_set = {}
    THEN Constructed(full_set, allow_set, {})
    ELSE IF <<"*">> \in allow_set /\ Cardinality(allow_set) = 1
    THEN Constructed(full_set, allow_set, full_set)
    ELSE IF <<"*">> \in allow_set /\ Cardinality(allow_set) > 1
    THEN Raised(full_set, allow_set, "wildcard_with_others")
    ELSE LET loop == ComputeLoop(order, full_set, allow_set, {})
         IN  IF loop.raised
             THEN Raised(full_set, allow_set, "not_in_full_set")
             ELSE Constructed(full_set, allow_set, loop.buffer)

\* Variant: "*" next to other values is resolved like any other pattern.
ComputeComputedSetStarAmongOthers(full_set, allow_set, order) ==
    IF allow_set = {}
    THEN Constructed(full_set, allow_set, full_set)
    ELSE IF <<"*">> \in allow_set /\ Cardinality(allow_set) = 1
    THEN Constructed(full_set, allow_set, full_set)
    ELSE LET loop == ComputeLoop(order, full_set, allow_set, {})
         IN  IF loop.raised
             THEN Raised(full_set, allow_set, "not_in_full_set")
             ELSE Constructed(full_set, allow_set, loop.buffer)

\* AllowSet._compute_computed_set(), allow.py 36-67.
ComputeComputedSet(full_set, allow_set, order) ==
    IF allow_set = {}
    THEN Constructed(full_set, allow_set, full_set)
    ELSE IF <<"*">> \in allow_set /\ Cardinality(allow_set) = 1
    THEN Constructed(full_set, allow_set, full_set)
    ELSE IF <<"*">> \in allow_set /\ Cardinality(allow_set) > 1
    THEN Raised(full_set, allow_set, "wildcard_with_others")
    ELSE LET loop == ComputeLoop(order, full_set, allow_set, {})
         IN  IF loop.raised
             THEN Raised(full_set, allow_set, "not_in_full_set")
             ELSE Constructed(full_set, allow_set, loop.buffer)

\* AllowSet.__init__(), allow.py 15-20: validate, then compute.
NewAllowSet(full_set, allow_set, order) ==
    IF ~ValidateCharacters(full_set, allow_set)
    THEN Raised(full_set, allow_set, "invalid_character")
    ELSE ComputeComputedSet(full_set, allow_set, order)

\* Variant: is_allowed answers from full_set.
IsAllowedInFullSet(obj, name) == name \in obj.full_set

\* AllowSet.is_allowed(name), allow.py 69-71
IsAllowed(obj, name) == name \in obj.computed_set

\* The instance names a universe is drawn from, and the universe of the
\* documented example.
Names ==
    { <<"a">>, <<"a", "b">>, <<"b", "a">>, <<"a", NL>>, <<"a", "!">> }

GpuUniverse ==
    { <<"g","p","u","_","1","x","_","a","1","0">>,
      <<"g","p","u","_","1","x","_","h","1","0","0">>,
      <<"g","p","u","_","8","x","_","h","1","0","0">> }

FullSets == (SUBSET Names) \cup {GpuUniverse}

\* The patterns an allow_set is drawn from: every string of at most MaxLen
\* characters of PatternChars, and a few longer or irregular ones.
PatternChars == {"a", "b", "*"}

Patterns ==
    UNION {[1..n -> PatternChars] : n \in 0..MaxLen}
    \cup { <<"a", NL>>, <<"*", NL>>, <<"a", "!">>,
           <<"g","p","u","_","8","x","_","*">> }

\* AllowSet.get_computed_set(), allow.py 73-75
GetComputedSet(obj) == obj.computed_set

\* AllowSet.log_allow_set(label), allow.py 77-82: what is logged.
LogAllowSet(obj) == obj.computed_set

\* The names is_allowed is asked about.
QueryNames == { <<"a">>, <<"a", "b">>, <<"a", NL>> }

\* The visiting orders of the allow_sets of at most two patterns.
Orders ==
    {<<>>} \cup {<<p>> : p \in Patterns}
           \cup {o \in Patterns \X Patterns : o[1] # o[2]}

\* ------------------------------------------------- AllowPair, AllowInstances
\* The universes handed to from_config_json_array.
InstancesFullSet == { <<"a">>, <<"a", "b">>, <<"b", "a">> }

RegionsFullSet == { <<"e">>, <<"w">> }

\* A JSON array of distinct patterns, as written: at most two of P.
JsonLists(P) ==
    {<<>>} \cup {<<p>> : p \in P} \cup {l \in P \X P : l[1] # l[2]}

NamePatterns ==
    { <<"*">>, <<"a">>, <<"a", "*">>, <<"*", "b">>, <<"a", "b", "*">> }

RegionPatterns == { <<"*">>, <<"e">> }

\* allow.py 120: one entry of config_json_array, parsed by json.loads.
ConfigEntries ==
    [instance_names : JsonLists(NamePatterns), regions : JsonLists(RegionPatterns)]

\* The configurations of at most two entries.
ConfigJsonArrays ==
    {<<>>} \cup {<<e>> : e \in ConfigEntries} \cup (ConfigEntries \X ConfigEntries)

\* allow.py 122-125 and 85-87: the pair of the two AllowSets. `written` is
\* the instance_names array as written; the set built from it, and so
\* str(_computed_set), is laid out in an order that depends on it.
AllowPair(instance_names, regions, written) ==
    [instance_names |-> instance_names, regions |-> regions, written |-> written]

\* AllowPair.__hash__, allow.py 104-105, with AllowSet.__hash__, 22-23:
\* hash(str(_computed_set)) of the names axis. Two equal sets print alike
\* when they were built alike; otherwise their iteration orders may or may
\* not agree (repr_stable).
HashEqual(p, q, repr_stable) ==
    /\ p.instance_names.computed_set = q.instance_names.computed_set
    /\ p.written = q.written \/ repr_stable

\* AllowPair == AllowPair: neither AllowPair nor AllowSet defines __eq__, so
\* pydantic's BaseModel.__eq__ compares the fields (full_set and allow_set
\* of both axes) and the private _computed_set.
PairEqual(p, q) ==
    /\ p.instance_names = q.instance_names
    /\ p.regions = q.regions

\* allow.py 128: AllowPair(...) in allow_pairs, a hash lookup then ==.
PairIn(pair, allow_pairs, repr_stable) ==
    \E q \in allow_pairs : HashEqual(q, pair, repr_stable) /\ PairEqual(q, pair)

NoAllowInstances ==
    [status |-> "none", error |-> "none", allow_pairs |-> {}]

\* allow.py 119-132: the loop over config_json_array.
RECURSIVE FromConfigLoop(_, _, _, _, _)
FromConfigLoop(config_json_array, instances_full_set, regions_full_set, allow_pairs, repr_stable) ==
    IF config_json_array = <<>>
    THEN [status |-> "ok", error |-> "none", allow_pairs |-> allow_pairs]
    ELSE LET data == Head(config_json_array)
             instance_names == NewAllowSet(instances_full_set,
                                           Range(data.instance_names),
                                           data.instance_names)
             regions == NewAllowSet(regions_full_set, Range(data.regions),
                                    data.regions)
             pair == AllowPair(instance_names, regions, data.instance_names)
         IN  IF instance_names.status = "error"
             THEN [status |-> "error", error |-> instance_names.error,
                   allow_pairs |-> {}]
             ELSE IF regions.status = "error"
             THEN [status |-> "error", error |-> regions.error,
                   allow_pairs |-> {}]
             ELSE IF PairIn(pair, allow_pairs, repr_stable)
             THEN [status |-> "error", error |-> "duplicate", allow_pairs |-> {}]
             ELSE FromConfigLoop(Tail(config_json_array), instances_full_set,
                                 regions_full_set, allow_pairs \cup {pair},
                                 repr_stable)

\* AllowInstances.from_config_json_array(), allow.py 112-134.
FromConfigJsonArray(config_json_array, instances_full_set, regions_full_set, repr_stable) ==
    FromConfigLoop(config_json_array, instances_full_set, regions_full_set,
                   {}, repr_stable)

\* Variant: the pair allows what either axis allows.
AllowPairIsAllowedEither(pair, instance_name, region) ==
    IsAllowed(pair.instance_names, instance_name) \/ IsAllowed(pair.regions, region)

\* AllowPair.is_allowed(instance_name, region), allow.py 90-92
AllowPairIsAllowed(pair, instance_name, region) ==
    IsAllowed(pair.instance_names, instance_name) /\ IsAllowed(pair.regions, region)

\* Variant: all(...) in place of any(...).
AllowInstancesIsAllowedAll(obj, instance_name, region) ==
    \A allow_pair \in obj.allow_pairs :
        AllowPairIsAllowed(allow_pair, instance_name, region)

\* AllowInstances.is_allowed(instance_name, region), allow.py 136-138
AllowInstancesIsAllowed(obj, instance_name, region) ==
    \E allow_pair \in obj.allow_pairs :
        AllowPairIsAllowed(allow_pair, instance_name, region)

\* ------------------------------------------------------------ LaunchInstance
\* Prices, in cents: max_price and the price asked about.
MaxPrices == {50, 60}

Prices == {40, 50, 60}

\* max_instances and current_running_instances
InstanceCounts == 0..2

NoLaunchInstance ==
    [status |-> "none", instance_name |-> <<>>, max_price |-> 0,
     max_instances |-> 0, regions |-> NoAllowSet]

\* LaunchInstance(instance_name=..., max_price=..., max_instances=...,
\* regions=...), launch.py 10-15
LaunchInstance(instance_name, max_price, max_instances, regions) ==
    [status |-> "ok", instance_name |-> instance_name, max_price |-> max_price,
     max_instances |-> max_instances, regions |-> regions]

\* Variant: the rule still allows a launch when max_instances are running.
LaunchIsAllowedUpToMax(rule, instance_name, price, current_running_instances, region) ==
    /\ rule.instance_name = instance_name
    /\ price <= rule.max_price
    /\ current_running_instances <= rule.max_instances
    /\ IsAllowed(rule.regions, region)

\* LaunchInstance.is_allowed(instance_name, price,
\* current_running_instances, region), launch.py 17-22
LaunchIsAllowed(rule, instance_name, price, current_running_instances, region) ==
    /\ rule.instance_name = instance_name
    /\ price <= rule.max_price
    /\ current_running_instances < rule.max_instances
    /\ IsAllowed(rule.regions, region)

\* LaunchInstance.__eq__, launch.py 38-39.
LaunchInstanceEq(a, b) == a.instance_name = b.instance_name

\* Variant: membership compares every field.
LaunchInstanceInByFields(rule, launch_instances) == rule \in launch_instances

\* "rule in launch_instances" for a set whose elements hash by
\* instance_name (launch.py 41-42) and compare with __eq__.
LaunchInstanceIn(rule, launch_instances) ==
    \E other \in launch_instances : LaunchInstanceEq(rule, other)

\* One entry of config_json_array as json.loads returns it, launch.py 59-62:
\* a name of the universe or not, two prices, two limits, and regions that
\* are all regions, one region, or a region outside the universe.
LaunchNames == {<<"a">>, <<"a", "b">>, <<"x">>}

LaunchRegionLists == { << <<"*">> >>, << <<"e">> >>, << <<"q">> >> }

LaunchConfigEntries ==
    [instance_name : LaunchNames, max_price : MaxPrices, max_instances : {1, 2}, regions : LaunchRegionLists]

\* The configurations of at most two entries.
LaunchConfigJsonArrays ==
    {<<>>} \cup {<<e>> : e \in LaunchConfigEntries} \cup (LaunchConfigEntries \X LaunchConfigEntries)

NoLaunchInstances ==
    [status |-> "none", error |-> "none", launch_instances |-> {}]

\* launch.py 56-81: the loop over config_json_array.
RECURSIVE LaunchFromConfigLoop(_, _, _, _)
LaunchFromConfigLoop(config_json_array, instances_full_set, regions_full_set, launch_instances) ==
    IF config_json_array = <<>>
    THEN [status |-> "ok", error |-> "none", launch_instances |-> launch_instances]
    ELSE LET data == Head(config_json_array)
             regions == NewAllowSet(regions_full_set, Range(data.regions),
                                    data.regions)
             rule == LaunchInstance(data.instance_name, data.max_price,
                                    data.max_instances, regions)
         IN  IF regions.status = "error"
             THEN [status |-> "error", error |-> regions.error,
                   launch_instances |-> {}]
             ELSE IF data.instance_name \notin instances_full_set
             THEN [status |-> "error", error |-> "instance_name_not_in_full_set",
                   launch_instances |-> {}]
             ELSE IF LaunchInstanceIn(rule, launch_instances)
             THEN [status |-> "error", error |-> "duplicate",
                   launch_instances |-> {}]
             ELSE LaunchFromConfigLoop(Tail(config_json_array), instances_full_set,
                                       regions_full_set, launch_instances \cup {rule})

\* LaunchInstances.from_config_json_array(), launch.py 49-83.
LaunchFromConfigJsonArray(config_json_array, instances_full_set, regions_full_set) ==
    LaunchFromConfigLoop(config_json_array, instances_full_set, regions_full_set, {})

\* ------------------------------------------------------------ NotifyManager
\* notify.py 34: "class NotifyManager(BaseModel, metaclass=SingletonMeta)".
\* SingletonMeta derives from type alone (singleton_meta.py 20) and the
\* metaclass of pydantic's BaseModel derives from ABCMeta; neither is a
\* subclass of the other, so the class statement raises TypeError
\* (metaclass conflict) when the module is imported.
ClassStatementRaises == TRUE

\* send_email(), smtp.py 31-56: every exception is caught and logged and
\* False is returned.
SendEmail(smtp_works) ==
    [returned |-> smtp_works, logged_error |-> ~smtp_works]

\* The statements of attempt_to_notify, notify.py 56-77, for the values the
\* two ConfigManager attributes hold: os.system returns a status and
\* send_email_using_config returns False on failure, neither raises, and
\* the value send_email_using_config returns is not looked at.
AttemptToNotifyBody(allow_instances, instance_name, region, enable_voice_notifications, notify_emails, smtp_works) ==
    IF AllowInstancesIsAllowed(allow_instances, instance_name, region)
    THEN [raised |-> "none", returned |-> "True",
          voice |-> enable_voice_notifications,
          email_attempted |-> notify_emails,
          email_sent |-> notify_emails /\ SendEmail(smtp_works).returned,
          logged_error |-> notify_emails /\ SendEmail(smtp_works).logged_error]
    ELSE [raised |-> "none", returned |-> "False", voice |-> FALSE,
          email_attempted |-> FALSE, email_sent |-> FALSE,
          logged_error |-> FALSE]

\* What a caller of NotifyManager.attempt_to_notify(instance_name, region)
\* gets: the import of managers.notify raises before anything is called.
AttemptToNotify(allow_instances, instance_name, region, enable_voice_notifications, notify_emails, smtp_works) ==
    IF ClassStatementRaises
    THEN [raised |-> "TypeError", returned |-> "nothing", voice |-> FALSE,
          email_attempted |-> FALSE, email_sent |-> FALSE,
          logged_error |-> FALSE]
    ELSE AttemptToNotifyBody(allow_instances, instance_name, region,
                             enable_voice_notifications, notify_emails,
                             smtp_works)

\* The notify configurations: at most one entry.
NotifyConfigs == {c \in ConfigJsonArrays : Len(c) <= 1}

\* ------------------------------------------------------------ APIThrottle
NsPerMs == 1000000

\* min_poll_delay_ms of the configuration, in milliseconds.
RequestIntervals == {1, 2}

\* How long one monitor.poll() can take, in nanoseconds: shorter than every
\* request interval, and longer than every request interval.
PollDurationsNs == {400000, 2600000}

\* time.sleep(secs) suspends for at least secs: by how much longer.
SleepOvershootsNs == {0, 300000}

\* APIThrottle(request_interval_ms), constructed when the clock reads time_ns.
APIThrottle(request_interval_ms, time_ns) ==
    [ request_interval_ms     |-> request_interval_ms,
      last_request_time_ns    |-> time_ns,
      previous_entry_time_ns  |-> time_ns,
      total_entry_interval_ms |-> 0,
      call_count              |-> 0 ]

\* Variant: the wait is measured from the previous entry of the call.
WaitTimeNsSinceEntry(th, current_entry_time_ns) ==
    (th.request_interval_ms * NsPerMs) - (current_entry_time_ns - th.previous_entry_time_ns)

\* wait_for_next_request, line 46.
WaitTimeNs(th, current_entry_time_ns) ==
    (th.request_interval_ms * NsPerMs) - (current_entry_time_ns - th.last_request_time_ns)

\* wait_for_next_request, lines 47-48: the clock after the optional sleep.
Sleep(time_ns, wait_time_ns, overshoot) ==
    IF wait_time_ns > 0 THEN time_ns + wait_time_ns + overshoot ELSE time_ns

\* APIThrottle.wait_for_next_request, 31-51, entered when the clock reads
\* time_ns: the throttle after the call and the clock at its line 50.
WaitForNextRequest(th, time_ns, overshoot) ==
    LET current_entry_time_ns == time_ns
        interval_since_last_entry_ms ==
            (current_entry_time_ns - th.previous_entry_time_ns) \div NsPerMs
        wait_time_ns == WaitTimeNs(th, current_entry_time_ns)
        after == Sleep(time_ns, wait_time_ns, overshoot)
    IN  [ api_throttle |->
            [ request_interval_ms     |-> th.request_interval_ms,
              last_request_time_ns    |-> after,
              previous_entry_time_ns  |-> current_entry_time_ns,
              total_entry_interval_ms |->
                  IF th.call_count > 0
                  THEN th.total_entry_interval_ms + interval_since_last_entry_ms
                  ELSE th.total_entry_interval_ms,
              call_count              |-> th.call_count + 1 ],
          slept   |-> wait_time_ns > 0,
          time_ns |-> after ]

\* The main loop before its first iteration. trace lists the calls made:
\* for a poll the clock when its fetch was issued, for a wait the clock when
\* it returned.
NoLoop == [pc |-> "poll", time_ns |-> 0, trace |-> <<>>]

\* ---------------------------------------------------------- SingletonMeta
\* Classes created with metaclass=SingletonMeta; each defines an instance
\* method initialize that stores its keyword arguments.
SingletonClasses == {"ClassA", "ClassB"}

\* What a constructor call can pass, and what an initialize call can pass.
ConstructorArgs == {1, 2}

InitializeKwargs == {1, 2}

\* dict.get(k, default) and d[k] = v.
DictGet(d, k, default) == IF k \in DOMAIN d THEN d[k] ELSE default

DictSet(d, k, v) == [x \in (DOMAIN d) \cup {k} |-> IF x = k THEN v ELSE d[x]]

\* SingletonMeta._instances and ._is_initialized, 26-27, empty; objects is
\* every instance that super().__call__ has created, in order of creation.
NoSingletons == [_instances |-> EmptyDict, _is_initialized |-> EmptyDict, objects |-> <<>>]

\* Variant: every constructor call creates and stores a new instance.
SingletonCallAlwaysNew(sm, cls, args) ==
    [ sm |-> [ _instances      |-> DictSet(sm._instances, cls, Len(sm.objects) + 1),
               _is_initialized |-> DictSet(sm._is_initialized, cls, FALSE),
               objects         |-> Append(sm.objects,
                                     [cls |-> cls, args |-> args, state |-> None]) ],
      returned |-> Len(sm.objects) + 1 ]

\* SingletonMeta.__call__(cls, *args, **kwargs), 29-41: the dictionaries
\* after the call and the instance returned (its position in objects).
SingletonCall(sm, cls, args) ==
    IF cls \notin DOMAIN sm._instances
    THEN [ sm |-> [ _instances      |-> DictSet(sm._instances, cls, Len(sm.objects) + 1),
                    _is_initialized |-> DictSet(sm._is_initialized, cls, FALSE),
                    objects         |-> Append(sm.objects,
                                          [cls |-> cls, args |-> args, state |-> None]) ],
           returned |-> Len(sm.objects) + 1 ]
    ELSE [ sm |-> sm, returned |-> sm._instances[cls] ]

\* SingletonMeta.instance, 43-54: cls() without arguments.
SingletonInstance(sm, cls) == SingletonCall(sm, cls, None)

\* SingletonMeta.is_initialized, 65-68.
SingletonIsInitialized(sm, cls) == DictGet(sm._is_initialized, cls, FALSE)

\* instance.initialize(**kwargs): the instance stores the arguments
\* (NotifyManager.initialize, 40-44).
InstanceInitialize(objects, i, kwargs) ==
    [objects EXCEPT ![i].state = kwargs]

\* Variant: initialize runs the instance's initialize on every call.
SingletonInitializeEveryCall(sm, cls, kwargs) ==
    LET got == SingletonInstance(sm, cls)
    IN  [ sm |-> [ _instances      |-> got.sm._instances,
                   _is_initialized |-> DictSet(got.sm._is_initialized, cls, TRUE),
                   objects         |-> InstanceInitialize(got.sm.objects, got.returned, kwargs) ],
          warning |-> FALSE ]

\* SingletonMeta.initialize(cls, **kwargs), 56-63.
SingletonInitialize(sm, cls, kwargs) ==
    IF ~DictGet(sm._is_initialized, cls, FALSE)
    THEN LET got == SingletonInstance(sm, cls)
         IN  [ sm |-> [ _instances      |-> got.sm._instances,
                        _is_initialized |-> DictSet(got.sm._is_initialized, cls, TRUE),
                        objects         |-> InstanceInitialize(got.sm.objects, got.returned, kwargs) ],
               warning |-> FALSE ]
    ELSE [ sm |-> sm, warning |-> TRUE ]

\* ------------------------------------------------------------------ state
VARIABLES
    driver,     \* which object this run drives: "tracker" or "monitor"
    calls,      \* how many calls the driver has made
    now,        \* the wall clock read by the fetch (datetime.now())
    call,       \* the arguments of the last call (for poll: what the fetch returned)
    tracker,    \* the Tracker object
    monitor,    \* the Monitor object
    poll_out,   \* what the last Monitor.poll() reported
    order,      \* the order in which the construction visited allow_set
    allowset,   \* the AllowSet constructed, or the error raised instead
    config,     \* the configuration handed to from_config_json_array
    allowinstances, \* the AllowInstances built from it, or the error raised
    launch,     \* the LaunchInstance constructed
    query,      \* the last query made of the driven object, and its answer
    alert_log,  \* how many 'New region observed' alerts each region has raised
    api_throttle, \* the APIThrottle object of the main loop
    loop,       \* the main loop: where it stands, time.time_ns(), and the calls it has made
    singleton,  \* SingletonMeta's dictionaries and every instance created through it
    launchinstances, \* the LaunchInstances built from the configuration, or the error raised
    legacy_tracker, \* the legacy Tracker object (src/src/tracker.py)
    legacy_loop \* instance_map and the locals of monitor_instance_types, and what its last iteration wrote

vars ==
    <<driver, calls, now, call, tracker, monitor, poll_out, order, allowset,
      config, allowinstances, launch, query, alert_log, api_throttle, loop, singleton, launchinstances, legacy_tracker, legacy_loop>>

NoQuery == [op |-> "none"]

NoConfig == [config_json_array |-> <<>>, repr_stable |-> TRUE]

NoCall == [op |-> "none", fetched |-> EmptyDict, fetch_time |-> None]

Init ==
    /\ driver \in {"tracker", "monitor"}
    /\ calls = 0
    /\ now = 0
    /\ call = NoCall
    /\ tracker = FreshTracker
    /\ monitor = FreshMonitor
    /\ poll_out = NoOutput
    /\ order = <<>>
    /\ allowset = NoAllowSet
    /\ config = NoConfig
    /\ allowinstances = NoAllowInstances
    /\ launch = NoLaunchInstance
    /\ query = NoQuery
    /\ alert_log = NoAlerts
    /\ api_throttle = APIThrottle(0, 0)
    /\ loop = NoLoop
    /\ singleton = NoSingletons
    /\ launchinstances = NoLaunchInstances
    /\ legacy_tracker = FreshLegacyTracker
    /\ legacy_loop = FreshLegacyLoop

\* A caller invokes tracker.update(fetched, fetch_time); what was rendered
\* of the tracker before no longer describes it.
TrackerUpdate ==
    /\ driver \in {"tracker", "console"}
    /\ calls < MaxCalls
    /\ calls' = calls + 1
    /\ \E S \in SUBSET InstanceTypes, t \in Times :
         \E stamp \in Stamps(t) :
          /\ call' = [op |-> "update", fetched |-> Fetched(S, stamp), fetch_time |-> t]
          /\ tracker' = Update(tracker, Fetched(S, stamp), t)
    /\ query' = NoQuery
    /\ UNCHANGED <<driver, now, monitor, poll_out, order, allowset, config, allowinstances, launch, alert_log, api_throttle, loop, singleton, launchinstances, legacy_tracker, legacy_loop>>

\* One cycle of the main loop: monitor.poll(), the fetch answering at time t.
MonitorPoll ==
    /\ driver \in {"monitor", "regions"}
    /\ calls < MaxCalls
    /\ calls' = calls + 1
    /\ \E S \in SUBSET MonitorInstanceTypes(driver), t \in Times, outcome \in FetchOutcomes :
         LET got == FetchInstanceAvailabilities(outcome, S, t)
             res == Poll(monitor, got.fetch_time, got.fetched)
         IN  /\ t >= now
             /\ now' = t
             /\ call' = [op |-> "poll", fetched |-> got.fetched,
                         fetch_time |-> got.fetch_time]
             /\ monitor' = res.monitor
             /\ poll_out' = res.out
             /\ alert_log' = [r \in Regions |->
                                IF r \in res.out.alerts THEN alert_log[r] + 1
                                ELSE alert_log[r]]
    /\ UNCHANGED <<driver, tracker, order, allowset, config, allowinstances, launch, query, api_throttle, loop, singleton, launchinstances, legacy_tracker, legacy_loop>>

Next ==
    \/ TrackerUpdate
    \/ MonitorPoll

Spec == Init /\ [][Next]_vars

\* The runs that drive a Tracker alone.
TrackerInit ==
    /\ driver = "tracker"
    /\ calls = 0
    /\ now = 0
    /\ call = NoCall
    /\ tracker = FreshTracker
    /\ monitor = FreshMonitor
    /\ poll_out = NoOutput
    /\ order = <<>>
    /\ allowset = NoAllowSet
    /\ config = NoConfig
    /\ allowinstances = NoAllowInstances
    /\ launch = NoLaunchInstance
    /\ query = NoQuery
    /\ alert_log = NoAlerts
    /\ api_throttle = APIThrottle(0, 0)
    /\ loop = NoLoop
    /\ singleton = NoSingletons
    /\ launchinstances = NoLaunchInstances
    /\ legacy_tracker = FreshLegacyTracker
    /\ legacy_loop = FreshLegacyLoop

TrackerNext == TrackerUpdate

TrackerSpec == TrackerInit /\ [][TrackerNext]_vars

\* The runs that drive a Monitor alone.
MonitorInit ==
    /\ driver = "monitor"
    /\ calls = 0
    /\ now = 0
    /\ call = NoCall
    /\ tracker = FreshTracker
    /\ monitor = FreshMonitor
    /\ poll_out = NoOutput
    /\ order = <<>>
    /\ allowset = NoAllowSet
    /\ config = NoConfig
    /\ allowinstances = NoAllowInstances
    /\ launch = NoLaunchInstance
    /\ query = NoQuery
    /\ alert_log = NoAlerts
    /\ api_throttle = APIThrottle(0, 0)
    /\ loop = NoLoop
    /\ singleton = NoSingletons
    /\ launchinstances = NoLaunchInstances
    /\ legacy_tracker = FreshLegacyTracker
    /\ legacy_loop = FreshLegacyLoop

MonitorNext == MonitorPoll

MonitorSpec == MonitorInit /\ [][MonitorNext]_vars

\* The runs that drive a Monitor whose inventory holds a new region.
RegionsInit ==
    /\ driver = "regions"
    /\ calls = 0
    /\ now = 0
    /\ call = NoCall
    /\ tracker = FreshTracker
    /\ monitor = FreshMonitor
    /\ poll_out = NoOutput
    /\ order = <<>>
    /\ allowset = NoAllowSet
    /\ config = NoConfig
    /\ allowinstances = NoAllowInstances
    /\ launch = NoLaunchInstance
    /\ query = NoQuery
    /\ alert_log = NoAlerts
    /\ api_throttle = APIThrottle(0, 0)
    /\ loop = NoLoop
    /\ singleton = NoSingletons
    /\ launchinstances = NoLaunchInstances
    /\ legacy_tracker = FreshLegacyTracker
    /\ legacy_loop = FreshLegacyLoop

RegionsNext == MonitorPoll

RegionsSpec == RegionsInit /\ [][RegionsNext]_vars

\* render_console_output(tracker), once for each state of the tracker.
ConsoleRender ==
    /\ driver = "console"
    /\ query.op = "none"
    /\ query' = [op |-> "render_console_output",
                 rendered |-> RenderConsoleOutput(tracker)]
    /\ UNCHANGED <<driver, calls, now, call, tracker, monitor, poll_out, order,
                   allowset, config, allowinstances, launch, alert_log, api_throttle, loop, singleton, launchinstances, legacy_tracker, legacy_loop>>

\* The runs that drive a Tracker and render it to the console.
ConsoleInit ==
    /\ driver = "console"
    /\ calls = 0
    /\ now = 0
    /\ call = NoCall
    /\ tracker = FreshTracker
    /\ monitor = FreshMonitor
    /\ poll_out = NoOutput
    /\ order = <<>>
    /\ allowset = NoAllowSet
    /\ config = NoConfig
    /\ allowinstances = NoAllowInstances
    /\ launch = NoLaunchInstance
    /\ query = NoQuery
    /\ alert_log = NoAlerts
    /\ api_throttle = APIThrottle(0, 0)
    /\ loop = NoLoop
    /\ singleton = NoSingletons
    /\ launchinstances = NoLaunchInstances
    /\ legacy_tracker = FreshLegacyTracker
    /\ legacy_loop = FreshLegacyLoop

ConsoleNext ==
    \/ TrackerUpdate
    \/ ConsoleRender

ConsoleSpec == ConsoleInit /\ [][ConsoleNext]_vars

\* A caller constructs AllowSet(full_set=..., allow_set=...); the object is
\* not changed afterwards.
AllowSetConstruct ==
    /\ driver = "allow"
    /\ allowset.status = "none"
    /\ \E full_set \in FullSets, o \in Orders :
          /\ order' = o
          /\ allowset' = NewAllowSet(full_set, Range(o), o)
    /\ UNCHANGED <<driver, calls, now, call, tracker, monitor, poll_out, config, allowinstances, launch, query, alert_log, api_throttle, loop, singleton, launchinstances, legacy_tracker, legacy_loop>>

AllowInit ==
    /\ driver = "allow"
    /\ calls = 0
    /\ now = 0
    /\ call = NoCall
    /\ tracker = FreshTracker
    /\ monitor = FreshMonitor
    /\ poll_out = NoOutput
    /\ order = <<>>
    /\ allowset = NoAllowSet
    /\ config = NoConfig
    /\ allowinstances = NoAllowInstances
    /\ launch = NoLaunchInstance
    /\ query = NoQuery
    /\ alert_log = NoAlerts
    /\ api_throttle = APIThrottle(0, 0)
    /\ loop = NoLoop
    /\ singleton = NoSingletons
    /\ launchinstances = NoLaunchInstances
    /\ legacy_tracker = FreshLegacyTracker
    /\ legacy_loop = FreshLegacyLoop

\* allowset.is_allowed(name)
AllowSetIsAllowed ==
    /\ driver = "allow"
    /\ allowset.status = "ok"
    /\ \E name \in QueryNames :
          query' = [op |-> "is_allowed", name |-> name,
                    result |-> IsAllowed(allowset, name)]
    /\ UNCHANGED <<driver, calls, now, call, tracker, monitor, poll_out, order,
                   allowset, config, allowinstances, launch, alert_log, api_throttle, loop, singleton, launchinstances, legacy_tracker, legacy_loop>>

\* allowset.get_computed_set()
AllowSetGetComputedSet ==
    /\ driver = "allow"
    /\ allowset.status = "ok"
    /\ query' = [op |-> "get_computed_set", result |-> GetComputedSet(allowset)]
    /\ UNCHANGED <<driver, calls, now, call, tracker, monitor, poll_out, order,
                   allowset, config, allowinstances, launch, alert_log, api_throttle, loop, singleton, launchinstances, legacy_tracker, legacy_loop>>

\* allowset.log_allow_set()
AllowSetLogAllowSet ==
    /\ driver = "allow"
    /\ allowset.status = "ok"
    /\ query' = [op |-> "log_allow_set", logged |-> LogAllowSet(allowset)]
    /\ UNCHANGED <<driver, calls, now, call, tracker, monitor, poll_out, order,
                   allowset, config, allowinstances, launch, alert_log, api_throttle, loop, singleton, launchinstances, legacy_tracker, legacy_loop>>

AllowNext ==
    \/ AllowSetConstruct
    \/ AllowSetIsAllowed
    \/ AllowSetGetComputedSet
    \/ AllowSetLogAllowSet

AllowSpec == AllowInit /\ [][AllowNext]_vars

\* A caller builds AllowInstances.from_config_json_array(config, ...).
AllowInstancesConstruct ==
    /\ driver = "instances"
    /\ allowinstances.status = "none"
    /\ \E config_json_array \in ConfigJsonArrays, repr_stable \in BOOLEAN :
          /\ config' = [config_json_array |-> config_json_array,
                        repr_stable |-> repr_stable]
          /\ allowinstances' = FromConfigJsonArray(config_json_array,
                                   InstancesFullSet, RegionsFullSet, repr_stable)
    /\ UNCHANGED <<driver, calls, now, call, tracker, monitor, poll_out, order, allowset, launch, query, alert_log, api_throttle, loop, singleton, launchinstances, legacy_tracker, legacy_loop>>

AllowInstancesInit ==
    /\ driver = "instances"
    /\ calls = 0
    /\ now = 0
    /\ call = NoCall
    /\ tracker = FreshTracker
    /\ monitor = FreshMonitor
    /\ poll_out = NoOutput
    /\ order = <<>>
    /\ allowset = NoAllowSet
    /\ config = NoConfig
    /\ allowinstances = NoAllowInstances
    /\ launch = NoLaunchInstance
    /\ query = NoQuery
    /\ alert_log = NoAlerts
    /\ api_throttle = APIThrottle(0, 0)
    /\ loop = NoLoop
    /\ singleton = NoSingletons
    /\ launchinstances = NoLaunchInstances
    /\ legacy_tracker = FreshLegacyTracker
    /\ legacy_loop = FreshLegacyLoop

AllowInstancesNext == AllowInstancesConstruct

AllowInstancesSpec == AllowInstancesInit /\ [][AllowInstancesNext]_vars

\* A caller constructs a LaunchInstance over the regions universe.
LaunchInstanceConstruct ==
    /\ driver = "launch"
    /\ launch.status = "none"
    /\ \E instance_name \in InstancesFullSet, max_price \in MaxPrices,
          max_instances \in InstanceCounts, l \in JsonLists(RegionPatterns) :
          launch' = LaunchInstance(instance_name, max_price, max_instances,
                                   NewAllowSet(RegionsFullSet, Range(l), l))
    /\ UNCHANGED <<driver, calls, now, call, tracker, monitor, poll_out, order,
                   allowset, config, allowinstances, query, alert_log, api_throttle, loop, singleton, launchinstances, legacy_tracker, legacy_loop>>

\* launch.is_allowed(instance_name, price, current_running_instances, region)
LaunchInstanceIsAllowed ==
    /\ driver = "launch"
    /\ launch.status = "ok"
    /\ \E instance_name \in {<<"a">>, <<"a", "b">>}, price \in Prices,
          current_running_instances \in InstanceCounts, region \in RegionsFullSet :
          query' = [op |-> "is_allowed", instance_name |-> instance_name,
                    price |-> price,
                    current_running_instances |-> current_running_instances,
                    region |-> region,
                    result |-> LaunchIsAllowed(launch, instance_name, price,
                                               current_running_instances, region)]
    /\ UNCHANGED <<driver, calls, now, call, tracker, monitor, poll_out, order,
                   allowset, config, allowinstances, launch, alert_log, api_throttle, loop, singleton, launchinstances, legacy_tracker, legacy_loop>>

LaunchInit ==
    /\ driver = "launch"
    /\ calls = 0
    /\ now = 0
    /\ call = NoCall
    /\ tracker = FreshTracker
    /\ monitor = FreshMonitor
    /\ poll_out = NoOutput
    /\ order = <<>>
    /\ allowset = NoAllowSet
    /\ config = NoConfig
    /\ allowinstances = NoAllowInstances
    /\ launch = NoLaunchInstance
    /\ query = NoQuery
    /\ alert_log = NoAlerts
    /\ api_throttle = APIThrottle(0, 0)
    /\ loop = NoLoop
    /\ singleton = NoSingletons
    /\ launchinstances = NoLaunchInstances
    /\ legacy_tracker = FreshLegacyTracker
    /\ legacy_loop = FreshLegacyLoop

LaunchNext ==
    \/ LaunchInstanceConstruct
    \/ LaunchInstanceIsAllowed

LaunchSpec == LaunchInit /\ [][LaunchNext]_vars

\* A caller builds the notify AllowInstances from the configuration and
\* calls NotifyManager.attempt_to_notify(instance_name, region).
NotifyAttemptToNotify ==
    /\ driver = "notify"
    /\ query.op = "none"
    /\ \E config_json_array \in NotifyConfigs,
          instance_name \in {<<"a">>, <<"a", "b">>},
          region \in RegionsFullSet,
          enable_voice_notifications \in BOOLEAN,
          notify_emails \in BOOLEAN,
          smtp_works \in BOOLEAN :
          LET built == FromConfigJsonArray(config_json_array, InstancesFullSet,
                                           RegionsFullSet, TRUE)
          IN  /\ built.status = "ok"
              /\ config' = [config_json_array |-> config_json_array,
                            repr_stable |-> TRUE]
              /\ allowinstances' = built
              /\ query' = [op |-> "attempt_to_notify",
                           instance_name |-> instance_name,
                           region |-> region,
                           enable_voice_notifications |-> enable_voice_notifications,
                           notify_emails |-> notify_emails,
                           smtp_works |-> smtp_works,
                           outcome |-> AttemptToNotify(built, instance_name,
                                          region, enable_voice_notifications,
                                          notify_emails, smtp_works)]
    /\ UNCHANGED <<driver, calls, now, call, tracker, monitor, poll_out, order,
                   allowset, launch, alert_log, api_throttle, loop, singleton, launchinstances, legacy_tracker, legacy_loop>>

NotifyInit ==
    /\ driver = "notify"
    /\ calls = 0
    /\ now = 0
    /\ call = NoCall
    /\ tracker = FreshTracker
    /\ monitor = FreshMonitor
    /\ poll_out = NoOutput
    /\ order = <<>>
    /\ allowset = NoAllowSet
    /\ config = NoConfig
    /\ allowinstances = NoAllowInstances
    /\ launch = NoLaunchInstance
    /\ query = NoQuery
    /\ alert_log = NoAlerts
    /\ api_throttle = APIThrottle(0, 0)
    /\ loop = NoLoop
    /\ singleton = NoSingletons
    /\ launchinstances = NoLaunchInstances
    /\ legacy_tracker = FreshLegacyTracker
    /\ legacy_loop = FreshLegacyLoop

NotifyNext == NotifyAttemptToNotify

NotifySpec == NotifyInit /\ [][NotifyNext]_vars

\* The main loop calls monitor.poll(): the fetch is issued when the call
\* is entered, datetime.now() is read when the call ends, d nanoseconds later.
LoopPoll ==
    /\ driver = "throttle"
    /\ loop.pc = "poll"
    /\ calls < MaxCalls
    /\ calls' = calls + 1
    /\ \E S \in SUBSET MonitorInstanceTypes(driver), outcome \in FetchOutcomes, d \in PollDurationsNs :
         LET t   == (loop.time_ns + d) \div NsPerMs
             got == FetchInstanceAvailabilities(outcome, S, t)
             res == Poll(monitor, got.fetch_time, got.fetched)
         IN  /\ now' = t
             /\ call' = [op |-> "poll", fetched |-> got.fetched,
                         fetch_time |-> got.fetch_time]
             /\ monitor' = res.monitor
             /\ poll_out' = res.out
             /\ alert_log' = [r \in Regions |->
                                IF r \in res.out.alerts THEN alert_log[r] + 1
                                ELSE alert_log[r]]
             /\ loop' = [ pc      |-> "wait",
                          time_ns |-> loop.time_ns + d,
                          trace   |-> Append(loop.trace,
                                        [op |-> "poll", time_ns |-> loop.time_ns,
                                         skipped |-> res.out.skipped]) ]
    /\ UNCHANGED <<driver, tracker, order, allowset, config, allowinstances, launch, query, api_throttle, singleton, launchinstances, legacy_tracker, legacy_loop>>

\* The main loop calls api_throttle.wait_for_next_request().
LoopWait ==
    /\ driver = "throttle"
    /\ loop.pc = "wait"
    /\ \E overshoot \in SleepOvershootsNs :
         LET w == WaitForNextRequest(api_throttle, loop.time_ns, overshoot)
         IN  /\ api_throttle' = w.api_throttle
             /\ loop' = [ pc      |-> "poll",
                          time_ns |-> w.time_ns,
                          trace   |-> Append(loop.trace,
                                        [op |-> "wait", time_ns |-> w.time_ns,
                                         skipped |-> FALSE]) ]
    /\ UNCHANGED <<driver, calls, now, call, tracker, monitor, poll_out, order, allowset, config, allowinstances, launch, query, alert_log, singleton, launchinstances, legacy_tracker, legacy_loop>>

\* The runs of the main loop: Monitor and APIThrottle constructed, then
\* poll and wait for ever.
ThrottleInit ==
    /\ driver = "throttle"
    /\ calls = 0
    /\ now = 0
    /\ call = NoCall
    /\ tracker = FreshTracker
    /\ monitor = FreshMonitor
    /\ poll_out = NoOutput
    /\ order = <<>>
    /\ allowset = NoAllowSet
    /\ config = NoConfig
    /\ allowinstances = NoAllowInstances
    /\ launch = NoLaunchInstance
    /\ query = NoQuery
    /\ alert_log = NoAlerts
    /\ api_throttle \in {APIThrottle(i, 0) : i \in RequestIntervals}
    /\ loop = NoLoop
    /\ singleton = NoSingletons
    /\ launchinstances = NoLaunchInstances
    /\ legacy_tracker = FreshLegacyTracker
    /\ legacy_loop = FreshLegacyLoop

ThrottleNext ==
    \/ LoopPoll
    \/ LoopWait

ThrottleSpec == ThrottleInit /\ [][ThrottleNext]_vars

\* A caller constructs: cls(args).
SingletonConstruct ==
    /\ driver = "singleton"
    /\ calls < MaxCalls
    /\ calls' = calls + 1
    /\ \E cls \in SingletonClasses, args \in ConstructorArgs :
         LET got == SingletonCall(singleton, cls, args)
         IN  /\ singleton' = got.sm
             /\ query' = [op |-> "construct", cls |-> cls, args |-> args,
                          returned |-> got.returned]
    /\ UNCHANGED <<driver, now, call, tracker, monitor, poll_out, order, allowset, config, allowinstances, launch, alert_log, api_throttle, loop, launchinstances, legacy_tracker, legacy_loop>>

\* A caller invokes the metaclass method: SingletonMeta.initialize(cls, **kwargs).
SingletonMetaInitialize ==
    /\ driver = "singleton"
    /\ calls < MaxCalls
    /\ calls' = calls + 1
    /\ \E cls \in SingletonClasses, kwargs \in InitializeKwargs :
         LET got == SingletonInitialize(singleton, cls, kwargs)
         IN  /\ singleton' = got.sm
             /\ query' = [op |-> "initialize", cls |-> cls, args |-> kwargs,
                          warning |-> got.warning]
    /\ UNCHANGED <<driver, now, call, tracker, monitor, poll_out, order, allowset, config, allowinstances, launch, alert_log, api_throttle, loop, launchinstances, legacy_tracker, legacy_loop>>

\* The runs that construct and initialize classes of SingletonMeta.
SingletonInit ==
    /\ driver = "singleton"
    /\ calls = 0
    /\ now = 0
    /\ call = NoCall
    /\ tracker = FreshTracker
    /\ monitor = FreshMonitor
    /\ poll_out = NoOutput
    /\ order = <<>>
    /\ allowset = NoAllowSet
    /\ config = NoConfig
    /\ allowinstances = NoAllowInstances
    /\ launch = NoLaunchInstance
    /\ query = NoQuery
    /\ alert_log = NoAlerts
    /\ api_throttle = APIThrottle(0, 0)
    /\ loop = NoLoop
    /\ singleton = NoSingletons
    /\ launchinstances = NoLaunchInstances
    /\ legacy_tracker = FreshLegacyTracker
    /\ legacy_loop = FreshLegacyLoop

SingletonNext ==
    \/ SingletonConstruct
    \/ SingletonMetaInitialize

SingletonSpec == SingletonInit /\ [][SingletonNext]_vars

\* LaunchInstances.from_config_json_array(config_json_array, ...) is called
\* once, at start-up.
LaunchInstancesConstruct ==
    /\ driver = "launchinstances"
    /\ launchinstances.status = "none"
    /\ \E config_json_array \in LaunchConfigJsonArrays :
          /\ config' = [config_json_array |-> config_json_array,
                        repr_stable |-> TRUE]
          /\ launchinstances' = LaunchFromConfigJsonArray(config_json_array,
                                    InstancesFullSet, RegionsFullSet)
    /\ UNCHANGED <<driver, calls, now, call, tracker, monitor, poll_out, order, allowset, allowinstances, launch, query, alert_log, api_throttle, loop, singleton, legacy_tracker, legacy_loop>>

\* The runs that build the launch rules of a configuration.
LaunchInstancesInit ==
    /\ driver = "launchinstances"
    /\ calls = 0
    /\ now = 0
    /\ call = NoCall
    /\ tracker = FreshTracker
    /\ monitor = FreshMonitor
    /\ poll_out = NoOutput
    /\ order = <<>>
    /\ allowset = NoAllowSet
    /\ config = NoConfig
    /\ allowinstances = NoAllowInstances
    /\ launch = NoLaunchInstance
    /\ query = NoQuery
    /\ alert_log = NoAlerts
    /\ api_throttle = APIThrottle(0, 0)
    /\ loop = NoLoop
    /\ singleton = NoSingletons
    /\ launchinstances = NoLaunchInstances
    /\ legacy_tracker = FreshLegacyTracker
    /\ legacy_loop = FreshLegacyLoop

LaunchInstancesNext == LaunchInstancesConstruct

LaunchInstancesSpec == LaunchInstancesInit /\ [][LaunchInstancesNext]_vars

\* One call update(fetched, fetch_time) is made on a core Tracker and on a
\* legacy Tracker, each with its own copy of the fetched records; the
\* caller goes on after the legacy call's exception.
SideBySideUpdate ==
    /\ driver = "sidebyside"
    /\ calls < MaxCalls
    /\ calls' = calls + 1
    /\ \E S \in SUBSET InstanceTypes, t \in Times :
          /\ call' = [op |-> "update", fetched |-> Fetched(S, <<t, t>>), fetch_time |-> t]
          /\ tracker' = Update(tracker, Fetched(S, <<t, t>>), t)
          /\ legacy_tracker' = LegacyUpdate(legacy_tracker, Fetched(S, <<t, t>>), t)
    /\ UNCHANGED <<driver, now, monitor, poll_out, order, allowset, config, allowinstances, launch, query, alert_log, api_throttle, loop, singleton, launchinstances, legacy_loop>>

\* The runs that drive the two trackers side by side.
SideBySideInit ==
    /\ driver = "sidebyside"
    /\ calls = 0
    /\ now = 0
    /\ call = NoCall
    /\ tracker = FreshTracker
    /\ monitor = FreshMonitor
    /\ poll_out = NoOutput
    /\ order = <<>>
    /\ allowset = NoAllowSet
    /\ config = NoConfig
    /\ allowinstances = NoAllowInstances
    /\ launch = NoLaunchInstance
    /\ query = NoQuery
    /\ alert_log = NoAlerts
    /\ api_throttle = APIThrottle(0, 0)
    /\ loop = NoLoop
    /\ singleton = NoSingletons
    /\ launchinstances = NoLaunchInstances
    /\ legacy_tracker = FreshLegacyTracker
    /\ legacy_loop = FreshLegacyLoop

SideBySideNext == SideBySideUpdate

SideBySideSpec == SideBySideInit /\ [][SideBySideNext]_vars

\* One iteration of "while True" in monitor_instance_types: the fetch and
\* what follows it, the clock reading t.
LegacyLoopIteration ==
    /\ driver = "legacyloop"
    /\ calls < MaxCalls
    /\ calls' = calls + 1
    /\ \E S \in SUBSET LegacyPairs, t \in Times, outcome \in FetchOutcomes :
          /\ t >= now
          /\ now' = t
          /\ call' = [op |-> "fetch_instance_types", fetched |-> FetchInstanceTypes(outcome, S),
                      fetch_time |-> t, outcome |-> outcome]
          /\ legacy_loop' = MonitorInstanceTypesIteration(legacy_loop,
                                FetchInstanceTypes(outcome, S), t)
    /\ UNCHANGED <<driver, tracker, monitor, poll_out, order, allowset, config, allowinstances, launch, query, alert_log, api_throttle, loop, singleton, launchinstances, legacy_tracker>>

\* The runs of the legacy script job_instance_availability.py.
LegacyLoopInit ==
    /\ driver = "legacyloop"
    /\ calls = 0
    /\ now = 0
    /\ call = NoCall
    /\ tracker = FreshTracker
    /\ monitor = FreshMonitor
    /\ poll_out = NoOutput
    /\ order = <<>>
    /\ allowset = NoAllowSet
    /\ config = NoConfig
    /\ allowinstances = NoAllowInstances
    /\ launch = NoLaunchInstance
    /\ query = NoQuery
    /\ alert_log = NoAlerts
    /\ api_throttle = APIThrottle(0, 0)
    /\ loop = NoLoop
    /\ singleton = NoSingletons
    /\ launchinstances = NoLaunchInstances
    /\ legacy_tracker = FreshLegacyTracker
    /\ legacy_loop = FreshLegacyLoop

LegacyLoopNext == LegacyLoopIteration

LegacyLoopSpec == LegacyLoopInit /\ [][LegacyLoopNext]_vars

\* Every combination of arguments of Monitor._update_time_state: the two
\* flags, each session time None or a time, and the fetch time.
TimeStateArguments ==
    [ op : {"arguments"}, did_observe_instances : BOOLEAN, current_availabilities : BOOLEAN, session_start_time : {None} \cup Times, session_end_time : {None} \cup Times, fetch_time : Times ]

\* Monitor._update_time_state is called with the arguments drawn.
TimeStateApply ==
    /\ driver = "timestate"
    /\ query.op = "arguments"
    /\ query' = [ op        |-> "_update_time_state",
                  arguments |-> query,
                  returned  |-> UpdateTimeState(query.did_observe_instances,
                                                query.current_availabilities,
                                                query.session_start_time,
                                                query.session_end_time,
                                                query.fetch_time) ]
    /\ UNCHANGED <<driver, calls, now, call, tracker, monitor, poll_out, order, allowset, config, allowinstances, launch, alert_log, api_throttle, loop, singleton, launchinstances, legacy_tracker, legacy_loop>>

\* The runs that call Monitor._update_time_state once, on any arguments.
TimeStateInit ==
    /\ driver = "timestate"
    /\ calls = 0
    /\ now = 0
    /\ call = NoCall
    /\ tracker = FreshTracker
    /\ monitor = FreshMonitor
    /\ poll_out = NoOutput
    /\ order = <<>>
    /\ allowset = NoAllowSet
    /\ config = NoConfig
    /\ allowinstances = NoAllowInstances
    /\ launch = NoLaunchInstance
    /\ query \in TimeStateArguments
    /\ alert_log = NoAlerts
    /\ api_throttle = APIThrottle(0, 0)
    /\ loop = NoLoop
    /\ singleton = NoSingletons
    /\ launchinstances = NoLaunchInstances
    /\ legacy_tracker = FreshLegacyTracker
    /\ legacy_loop = FreshLegacyLoop

TimeStateNext == TimeStateApply

TimeStateSpec == TimeStateInit /\ [][TimeStateNext]_vars

\* ================================================================= claims

\* C1: after any sequence of Tracker.update calls on a fresh tracker,
\* session_start_time and session_end_time are never both set.
C1_SessionTimesNeverBothSet ==
    ~(tracker.session_start_time # None /\ tracker.session_end_time # None)

\* C2: after every Tracker.update the key sets of new, updated and removed
\* are pairwise disjoint and the key set of current is new \cup updated.
C2_Partition ==
    LET n == Keys(tracker.new_availabilities)
        u == Keys(tracker.updated_availabilities)
        r == Keys(tracker.removed_availabilities)
    IN  /\ n \cap u = {}
        /\ n \cap r = {}
        /\ u \cap r = {}
        /\ Keys(tracker.current_availabilities) = n \cup u

\* An update that reported new, updated and removed offerings at once.
C2_Witness ==
    /\ call.op = "update"
    /\ Keys(tracker.new_availabilities) # {}
    /\ Keys(tracker.updated_availabilities) # {}
    /\ Keys(tracker.removed_availabilities) # {}

\* C3: for the current map C before the call and the fetched map F, both
\* Tracker.update and Monitor._analyze_availability (run by a poll that was
\* not skipped) classify new = F \ C, updated = F \cap C, removed = C \ F.
C3_Classification ==
    [][ /\ call'.op = "update" =>
             LET F == Keys(call'.fetched)
                 C == Keys(tracker.current_availabilities)
             IN  /\ Keys(tracker'.new_availabilities) = F \ C
                 /\ Keys(tracker'.updated_availabilities) = F \cap C
                 /\ Keys(tracker'.removed_availabilities) = C \ F
        /\ (call'.op = "poll" /\ call'.fetch_time # None) =>
             LET F == Keys(call'.fetched)
                 C == Keys(monitor.current_availabilities)
             IN  /\ Keys(poll_out'.new) = F \ C
                 /\ Keys(poll_out'.updated) = F \cap C
                 /\ Keys(poll_out'.removed) = C \ F
      ]_vars

\* A poll whose differencing step found new, updated and removed offerings.
C3_Witness ==
    /\ call.op = "poll"
    /\ Keys(poll_out.new) # {}
    /\ Keys(poll_out.updated) # {}
    /\ Keys(poll_out.removed) # {}

\* C4 (as claimed): a second update with the identical snapshot and the same
\* fetch_time reports empty new and removed, updated = the snapshot's
\* offerings, and leaves current, session_start_time and session_end_time as
\* they were after the first call.
C4_Idempotent ==
    [][ (call.op = "update" /\ call' = call) =>
           /\ Keys(tracker'.new_availabilities) = {}
           /\ Keys(tracker'.removed_availabilities) = {}
           /\ Keys(tracker'.updated_availabilities) = Keys(call.fetched)
           /\ tracker'.current_availabilities = tracker.current_availabilities
           /\ tracker'.session_start_time = tracker.session_start_time
           /\ tracker'.session_end_time = tracker.session_end_time
      ]_vars

\* C4 (amended): as C4, except that current keeps its keys and every
\* record's start_time while every record's last_time_available is
\* fetch_time after the second call.
C4_IdempotentAmended ==
    [][ (call.op = "update" /\ call' = call) =>
           /\ Keys(tracker'.new_availabilities) = {}
           /\ Keys(tracker'.removed_availabilities) = {}
           /\ Keys(tracker'.updated_availabilities) = Keys(call.fetched)
           /\ tracker'.current_availabilities =
                 [k \in Keys(tracker.current_availabilities) |->
                     [tracker.current_availabilities[k]
                        EXCEPT !.last_time_available = call.fetch_time]]
           /\ tracker'.session_start_time = tracker.session_start_time
           /\ tracker'.session_end_time = tracker.session_end_time
      ]_vars

\* The state after a repeated update whose first call created records that
\* carried times other than fetch_time.
C4_Witness ==
    /\ call.op = "update"
    /\ calls >= 2
    /\ Keys(call.fetched) # {}
    /\ Keys(tracker.new_availabilities) = {}
    /\ Keys(tracker.removed_availabilities) = {}
    /\ Keys(tracker.updated_availabilities) = Keys(call.fetched)
    /\ \A k \in Keys(call.fetched) :
          /\ tracker.current_availabilities[k].start_time = call.fetched[k].start_time
          /\ call.fetched[k].last_time_available # call.fetch_time
          /\ tracker.current_availabilities[k].last_time_available = call.fetch_time

\* C5 (as claimed): for an offering that stays in current across an update,
\* start_time does not change and last_time_available does not decrease.
C5_FirstSeenFixedLastSeenMonotone ==
    [][ call'.op = "update" =>
           \A k \in Keys(tracker.current_availabilities)
                      \cap Keys(tracker'.current_availabilities) :
              /\ tracker'.current_availabilities[k].start_time
                    = tracker.current_availabilities[k].start_time
              /\ tracker'.current_availabilities[k].last_time_available
                    >= tracker.current_availabilities[k].last_time_available
      ]_vars

\* C5 (amended): for an offering that stays in current across an update,
\* start_time does not change and last_time_available becomes that update's
\* fetch_time.
C5_FirstSeenFixedLastSeenIsFetchTime ==
    [][ call'.op = "update" =>
           \A k \in Keys(tracker.current_availabilities)
                      \cap Keys(tracker'.current_availabilities) :
              /\ tracker'.current_availabilities[k].start_time
                    = tracker.current_availabilities[k].start_time
              /\ tracker'.current_availabilities[k].last_time_available
                    = call'.fetch_time
      ]_vars

\* An offering tracked across updates: created by the first call, still in
\* current after the last one, with a start_time older than its last time.
C5_Witness ==
    /\ call.op = "update"
    /\ calls >= 3
    /\ \E k \in Keys(tracker.updated_availabilities) :
          /\ tracker.updated_availabilities[k].start_time < call.fetch_time
          /\ tracker.current_availabilities[k].last_time_available = call.fetch_time

\* C6: an empty -> non-empty update sets session_start_time = fetch_time, a
\* non-empty -> empty update sets session_end_time = fetch_time, and an
\* update that does not change the emptiness of current leaves both alone.
C6_SessionStamping ==
    [][ call'.op = "update" =>
           LET was_empty == Keys(tracker.current_availabilities) = {}
               is_empty  == Keys(tracker'.current_availabilities) = {}
           IN  /\ (was_empty /\ ~is_empty) =>
                      tracker'.session_start_time = call'.fetch_time
               /\ (~was_empty /\ is_empty) =>
                      tracker'.session_end_time = call'.fetch_time
               /\ (was_empty = is_empty) =>
                      /\ tracker'.session_start_time = tracker.session_start_time
                      /\ tracker'.session_end_time = tracker.session_end_time
      ]_vars

\* A non-empty -> non-empty update that changed the set of offerings at a
\* fetch_time other than the one the session started at.
C6_Witness ==
    /\ call.op = "update"
    /\ Keys(tracker.new_availabilities) # {}
    /\ Keys(tracker.removed_availabilities) # {}
    /\ Keys(tracker.updated_availabilities) # {}
    /\ tracker.session_start_time # None
    /\ tracker.session_start_time # call.fetch_time

\* C7: the scenario on a fresh tracker. update({A/us-east-1}, 0) gives
\* new = {A} and session_start = 0; update({A/us-east-1, B/us-west-1}, 10)
\* gives new = {B}, updated = {A} with A.last_seen = 10, A.first_seen = 0;
\* update({}, 20) gives removed = {A, B}, session_end = 20 and
\* session_start = None.
C7_Scenario ==
    [][ LET F1 == Fetched({A_east}, <<0, 0>>)
            F2 == Fetched({A_east, B_west}, <<10, 10>>)
            T1 == Update(FreshTracker, F1, 0)
            T2 == Update(T1, F2, 10)
        IN
        /\ (tracker = FreshTracker
              /\ call' = [op |-> "update", fetched |-> F1, fetch_time |-> 0]) =>
             /\ Keys(tracker'.new_availabilities) = {A_east}
             /\ tracker'.session_start_time = 0
        /\ (tracker = T1
              /\ call' = [op |-> "update", fetched |-> F2, fetch_time |-> 10]) =>
             /\ Keys(tracker'.new_availabilities) = {B_west}
             /\ Keys(tracker'.updated_availabilities) = {A_east}
             /\ tracker'.updated_availabilities[A_east].last_time_available = 10
             /\ tracker'.updated_availabilities[A_east].start_time = 0
        /\ (tracker = T2
              /\ call' = [op |-> "update", fetched |-> EmptyDict, fetch_time |-> 20]) =>
             /\ Keys(tracker'.removed_availabilities) = {A_east, B_west}
             /\ tracker'.session_end_time = 20
             /\ tracker'.session_start_time = None
      ]_vars

\* C8: a poll whose fetch failed (fetch_time None) leaves the monitor's
\* current_availabilities, session times, did_observe_instances and
\* is_first_poll as they were and reports nothing as new or removed.
C8_SkippedCycle ==
    [][ (call'.op = "poll" /\ call'.fetch_time = None) =>
           /\ monitor'.current_availabilities = monitor.current_availabilities
           /\ monitor'.session_start_time = monitor.session_start_time
           /\ monitor'.session_end_time = monitor.session_end_time
           /\ monitor'.did_observe_instances = monitor.did_observe_instances
           /\ monitor'.is_first_poll = monitor.is_first_poll
           /\ Keys(poll_out'.new) = {}
           /\ Keys(poll_out'.removed) = {}
           /\ poll_out'.logged = {}
      ]_vars

\* A skipped poll while offerings are tracked and a session is in progress.
C8_Witness ==
    /\ call.op = "poll"
    /\ call.fetch_time = None
    /\ poll_out.skipped
    /\ Keys(monitor.current_availabilities) # {}
    /\ monitor.session_start_time # None
    /\ ~monitor.is_first_poll

\* C9 (as claimed): an offering of the snapshot that has the name and region
\* of a tracked offering but another description is classified as updated,
\* with the tracked record's start_time.
C9_KeyedOnNameAndRegion ==
    [][ call'.op = "update" =>
           \A k \in Keys(tracker.current_availabilities) \ Keys(call'.fetched) :
             \A f \in Keys(call'.fetched) \ Keys(tracker.current_availabilities) :
               (f.name = k.name /\ f.region = k.region /\ f.description # k.description)
               => /\ f \in Keys(tracker'.updated_availabilities)
                  /\ f \notin Keys(tracker'.new_availabilities)
                  /\ k \notin Keys(tracker'.removed_availabilities)
                  /\ tracker'.current_availabilities[f].start_time
                        = tracker.current_availabilities[k].start_time
      ]_vars

\* C9 (amended): identity is (name, description, region); such an offering
\* is classified as new, stored as the fetched record, and the tracked one
\* is classified as removed.
C9_KeyedOnAllFields ==
    [][ call'.op = "update" =>
           \A k \in Keys(tracker.current_availabilities) \ Keys(call'.fetched) :
             \A f \in Keys(call'.fetched) \ Keys(tracker.current_availabilities) :
               (f.name = k.name /\ f.region = k.region /\ f.description # k.description)
               => /\ f \in Keys(tracker'.new_availabilities)
                  /\ f \notin Keys(tracker'.updated_availabilities)
                  /\ k \in Keys(tracker'.removed_availabilities)
                  /\ tracker'.current_availabilities[f] = call'.fetched[f]
      ]_vars

\* The redescribed offering arrived while the original was tracked.
C9_Witness ==
    /\ call.op = "update"
    /\ A_east \in Keys(tracker.removed_availabilities)
    /\ A_east_redescribed \in Keys(tracker.new_availabilities)
    /\ tracker.new_availabilities[A_east_redescribed].start_time
          # tracker.removed_availabilities[A_east].start_time

\* C10 (as claimed): a record classified as new has first_seen and last_seen
\* equal to fetch_time in new and in current, whatever the fetched value
\* carried.
C10_NewStampedWithFetchTime ==
    call.op = "update" =>
       \A k \in Keys(tracker.new_availabilities) :
          /\ tracker.new_availabilities[k].start_time = call.fetch_time
          /\ tracker.new_availabilities[k].last_time_available = call.fetch_time
          /\ tracker.current_availabilities[k].start_time = call.fetch_time
          /\ tracker.current_availabilities[k].last_time_available = call.fetch_time

\* C10 (amended): a record classified as new is, in new and in current, the
\* fetched record, with the times the fetched value carried.
C10_NewIsFetchedRecord ==
    call.op = "update" =>
       \A k \in Keys(tracker.new_availabilities) :
          /\ tracker.new_availabilities[k] = call.fetched[k]
          /\ tracker.current_availabilities[k] = call.fetched[k]

\* A new offering whose fetched record carried times other than fetch_time.
C10_Witness ==
    /\ call.op = "update"
    /\ \E k \in Keys(tracker.new_availabilities) :
          /\ call.fetched[k].start_time # call.fetch_time
          /\ call.fetched[k].last_time_available # call.fetch_time

\* C11: an offering classified as updated maps, in updated and in current,
\* to the record that was in current before the call with only
\* last_time_available changed, to fetch_time; the fetched record's times
\* play no part.
C11_UpdatedIsCurrentRecordRestamped ==
    [][ call'.op = "update" =>
           \A k \in Keys(tracker'.updated_availabilities) :
              /\ k \in Keys(tracker.current_availabilities)
              /\ tracker'.updated_availabilities[k] =
                    [ instance_type       |-> tracker.current_availabilities[k].instance_type,
                      start_time          |-> tracker.current_availabilities[k].start_time,
                      last_time_available |-> call'.fetch_time ]
              /\ tracker'.current_availabilities[k] = tracker'.updated_availabilities[k]
      ]_vars

\* An updated offering whose fetched record carried other times than the
\* record kept for it.
C11_Witness ==
    /\ call.op = "update"
    /\ \E k \in Keys(tracker.updated_availabilities) :
          /\ call.fetched[k].start_time # tracker.updated_availabilities[k].start_time
          /\ call.fetched[k].last_time_available
                # tracker.updated_availabilities[k].last_time_available

\* C12 (as claimed): a removed record has the start_time it had in current
\* and, as last_time_available, the fetch_time of the previous update (the
\* last poll in which the offering was present); the offering is absent from
\* current afterwards.
C12_RemovedStampedByLastPoll ==
    [][ call'.op = "update" =>
           \A k \in Keys(tracker'.removed_availabilities) :
              /\ tracker'.removed_availabilities[k].start_time
                    = tracker.current_availabilities[k].start_time
              /\ tracker'.removed_availabilities[k].last_time_available
                    = tracker.last_fetch_time
              /\ k \notin Keys(tracker'.current_availabilities)
      ]_vars

\* C12 (amended): a removed record is the record current held before the
\* call, unchanged by the removing call; its last_time_available is the
\* previous update's fetch_time if that update classified it as updated, and
\* the offering is absent from current afterwards.
C12_RemovedIsCurrentRecord ==
    [][ call'.op = "update" =>
           \A k \in Keys(tracker'.removed_availabilities) :
              /\ tracker'.removed_availabilities[k] = tracker.current_availabilities[k]
              /\ k \in Keys(tracker.updated_availabilities) =>
                    tracker'.removed_availabilities[k].last_time_available
                       = tracker.last_fetch_time
              /\ k \notin Keys(tracker'.current_availabilities)
      ]_vars

\* An offering removed by an update made at another time than the one its
\* record was last seen at.
C12_Witness ==
    /\ call.op = "update"
    /\ calls >= 3
    /\ \E k \in Keys(tracker.removed_availabilities) :
          /\ tracker.removed_availabilities[k].last_time_available # call.fetch_time
          /\ tracker.removed_availabilities[k].start_time
                # tracker.removed_availabilities[k].last_time_available

\* C13 (as claimed): whatever the fetch_time arguments, every record of
\* current and of removed has start_time <= last_time_available.
C13_DurationNeverNegative ==
    /\ \A k \in Keys(tracker.current_availabilities) :
          tracker.current_availabilities[k].start_time
             <= tracker.current_availabilities[k].last_time_available
    /\ \A k \in Keys(tracker.removed_availabilities) :
          tracker.removed_availabilities[k].start_time
             <= tracker.removed_availabilities[k].last_time_available

\* C13 (amended): an update whose fetch_time is not earlier than the
\* previous one keeps start_time <= last_time_available (and start_time <=
\* fetch_time) for every record of current and of removed.
C13_DurationNonNegativeInOrder ==
    [][ ( /\ call'.op = "update"
          /\ call'.fetch_time >= tracker.last_fetch_time
          /\ \A k \in Keys(tracker.current_availabilities) :
                /\ tracker.current_availabilities[k].start_time
                      <= tracker.current_availabilities[k].last_time_available
                /\ tracker.current_availabilities[k].start_time
                      <= tracker.last_fetch_time )
        => /\ \A k \in Keys(tracker'.current_availabilities) :
                /\ tracker'.current_availabilities[k].start_time
                      <= tracker'.current_availabilities[k].last_time_available
                /\ tracker'.current_availabilities[k].start_time <= call'.fetch_time
           /\ \A k \in Keys(tracker'.removed_availabilities) :
                tracker'.removed_availabilities[k].start_time
                   <= tracker'.removed_availabilities[k].last_time_available
      ]_vars

\* Updates made in order that left an updated and a removed record, both
\* with a positive duration.
C13_Witness ==
    /\ call.op = "update"
    /\ \E k \in Keys(tracker.updated_availabilities) :
          tracker.updated_availabilities[k].start_time
             < tracker.updated_availabilities[k].last_time_available
    /\ \E k \in Keys(tracker.removed_availabilities) :
          /\ tracker.removed_availabilities[k].start_time
                < tracker.removed_availabilities[k].last_time_available
          /\ tracker.removed_availabilities[k].last_time_available < call.fetch_time

\* C14: has_ever_observed_instances is false on a fresh tracker, and each
\* update leaves it true if it was true, makes it true if the snapshot is
\* non-empty and leaves it false otherwise.
C14_HasEverObservedMonotone ==
    /\ ~tracker.has_ever_observed_instances
    /\ [][ call'.op = "update" =>
              tracker'.has_ever_observed_instances
                 = (tracker.has_ever_observed_instances \/ Keys(call'.fetched) # {})
         ]_vars

\* An empty snapshot after instances had been observed.
C14_Witness ==
    /\ call.op = "update"
    /\ Keys(call.fetched) = {}
    /\ Keys(tracker.removed_availabilities) # {}
    /\ tracker.has_ever_observed_instances

\* C15: after an update last_fetch_time is that call's fetch_time, and
\* is_first_poll() holds exactly as long as no update was made.
C15_LastFetchTimeAndFirstPoll ==
    /\ call.op = "update" => tracker.last_fetch_time = call.fetch_time
    /\ driver = "tracker" => (IsFirstPoll(tracker) <=> calls = 0)

\* The first update, with an empty snapshot.
C15_Witness ==
    /\ call.op = "update"
    /\ calls = 1
    /\ Keys(call.fetched) = {}
    /\ ~tracker.has_ever_observed_instances
    /\ ~IsFirstPoll(tracker)

\* C16: an AllowSet constructed with an empty allow_set, or with exactly
\* {"*"}, has computed_set = full_set, so is_allowed(x) holds exactly for
\* the members of full_set; such a construction succeeds whenever every
\* character of full_set is in the class.
C16_EmptyOrStarAllowsAll ==
    (allowset.status # "none" /\ allowset.allow_set \in {{}, {<<"*">>}}) =>
        /\ (\A x \in allowset.full_set : Range(x) \subseteq ClassChars)
              => allowset.status = "ok"
        /\ allowset.status = "ok" =>
              /\ allowset.computed_set = allowset.full_set
              /\ \A x \in Names \cup GpuUniverse :
                    IsAllowed(allowset, x) <=> x \in allowset.full_set

\* Both forms constructed over a universe of several names: the empty
\* allow_set and {"*"}.
C16_Witness ==
    /\ allowset.status = "ok"
    /\ Cardinality(allowset.full_set) >= 2
    /\ \/ allowset.allow_set = {} /\ allowset.full_set = GpuUniverse
       \/ allowset.allow_set = {<<"*">>} /\ <<"a", "b">> \in allowset.full_set

\* C17: with any other allow_set, a successful construction leaves
\* computed_set = exactly the members of full_set that equal a wildcard-free
\* pattern or that a wildcard pattern matches as an anchored glob ("*" for
\* any run of characters, every other character for itself).
C17_ComputedIsGlobResolution ==
    LET RECURSIVE GlobMatch(_, _)
        GlobMatch(pattern, x) ==
            IF pattern = <<>>
            THEN x = <<>>
            ELSE IF Head(pattern) = "*"
            THEN \/ GlobMatch(Tail(pattern), x)
                 \/ x # <<>> /\ GlobMatch(pattern, Tail(x))
            ELSE x # <<>> /\ Head(x) = Head(pattern)
                          /\ GlobMatch(Tail(pattern), Tail(x))
    IN  (allowset.status = "ok" /\ allowset.allow_set \notin {{}, {<<"*">>}}) =>
            allowset.computed_set =
                {x \in allowset.full_set :
                    \E pattern \in allowset.allow_set :
                        IF HasWildcard(pattern)
                        THEN GlobMatch(pattern, x)
                        ELSE pattern = x}

\* C18: construction fails whenever some wildcard-free pattern is not in
\* full_set, whatever else allow_set holds and in whatever order it is
\* visited; after a successful construction every wildcard-free pattern is
\* in computed_set.
C18_UnknownLiteralAlwaysFails ==
    allowset.status # "none" =>
        /\ (\E value \in allowset.allow_set :
               ~HasWildcard(value) /\ value \notin allowset.full_set)
              => allowset.status = "error"
        /\ allowset.status = "ok" =>
              \A value \in allowset.allow_set :
                 ~HasWildcard(value) => value \in allowset.computed_set

\* The loop visited a wildcard pattern that matches a name before it came
\* to a literal that is not in full_set.
C18_Witness ==
    /\ allowset.status = "error"
    /\ allowset.error = "not_in_full_set"
    /\ Len(order) = 2
    /\ HasWildcard(order[1])
    /\ NewInstances(allowset.full_set, {order[1]}) # {}
    /\ ~HasWildcard(order[2])
    /\ order[2] \notin allowset.full_set

\* C19: an allow_set that holds "*" and at least one other pattern fails
\* to construct.
C19_StarWithOthersFails ==
    (allowset.status # "none"
        /\ <<"*">> \in allowset.allow_set
        /\ Cardinality(allowset.allow_set) > 1)
    => allowset.status = "error"

\* "*" next to a literal that is in full_set, every character being valid.
C19_Witness ==
    /\ allowset.status = "error"
    /\ allowset.error = "wildcard_with_others"
    /\ \E value \in allowset.allow_set :
          ~HasWildcard(value) /\ value \in allowset.full_set

\* C20: construction fails whenever a member of full_set or of allow_set
\* holds a character outside [A-Za-z0-9_*-], an empty allow_set included.
C20_InvalidCharacterFails ==
    (allowset.status # "none"
        /\ \E value \in allowset.full_set \cup allowset.allow_set :
              ~(Range(value) \subseteq ClassChars))
    => allowset.status = "error"

\* C21: from_config_json_array fails whenever two entries resolve to the
\* same computed name set and the same computed region set, however their
\* pattern lists are written.
C21_ResolvedDuplicateFails ==
    LET cfg == config.config_json_array
        names(i) == NewAllowSet(InstancesFullSet, Range(cfg[i].instance_names),
                                cfg[i].instance_names)
        regions(i) == NewAllowSet(RegionsFullSet, Range(cfg[i].regions),
                                  cfg[i].regions)
    IN  ( /\ allowinstances.status # "none"
          /\ Len(cfg) = 2
          /\ \A i \in 1..2 : names(i).status = "ok" /\ regions(i).status = "ok"
          /\ names(1).computed_set = names(2).computed_set
          /\ regions(1).computed_set = regions(2).computed_set )
        => allowinstances.status = "error"

\* C22: AllowInstances.is_allowed(name, region) holds exactly when some
\* member pair allows the name on its name axis and the region on its
\* region axis; with no pair it is false for every (name, region).
C22_IsAllowedIsOrOverPairs ==
    allowinstances.status = "ok" =>
        \A instance_name \in InstancesFullSet \cup {<<"c">>},
           region \in RegionsFullSet \cup {<<"x">>} :
            /\ AllowInstancesIsAllowed(allowinstances, instance_name, region)
                  <=> \E pair \in allowinstances.allow_pairs :
                         /\ instance_name \in pair.instance_names.computed_set
                         /\ region \in pair.regions.computed_set
            /\ allowinstances.allow_pairs = {}
                  => ~AllowInstancesIsAllowed(allowinstances, instance_name, region)

\* Two pairs of which neither allows (ab, w), though one allows the name and
\* the other the region.
C22_Witness ==
    /\ allowinstances.status = "ok"
    /\ Cardinality(allowinstances.allow_pairs) = 2
    /\ ~AllowInstancesIsAllowed(allowinstances, <<"a", "b">>, <<"w">>)
    /\ \E pair \in allowinstances.allow_pairs :
          <<"a", "b">> \in pair.instance_names.computed_set
    /\ \E pair \in allowinstances.allow_pairs :
          <<"w">> \in pair.regions.computed_set
    /\ AllowInstancesIsAllowed(allowinstances, <<"a">>, <<"w">>)

\* C23: AllowPair.is_allowed(name, region) holds exactly when the name axis
\* allows name and the region axis allows region.
C23_PairIsAllowedIsAnd ==
    allowinstances.status = "ok" =>
        \A pair \in allowinstances.allow_pairs :
            \A instance_name \in InstancesFullSet \cup {<<"c">>},
               region \in RegionsFullSet \cup {<<"x">>} :
                AllowPairIsAllowed(pair, instance_name, region)
                   <=> /\ instance_name \in pair.instance_names.computed_set
                       /\ region \in pair.regions.computed_set

\* A pair that allows a name but not every region.
C23_Witness ==
    /\ allowinstances.status = "ok"
    /\ \E pair \in allowinstances.allow_pairs :
          /\ IsAllowed(pair.instance_names, <<"a", "b">>)
          /\ ~IsAllowed(pair.instance_names, <<"a">>)
          /\ IsAllowed(pair.regions, <<"e">>)
          /\ ~IsAllowed(pair.regions, <<"w">>)
          /\ AllowPairIsAllowed(pair, <<"a", "b">>, <<"e">>)
          /\ ~AllowPairIsAllowed(pair, <<"a", "b">>, <<"w">>)

\* C24: LaunchInstance.is_allowed(name, price, running_count, region) is
\* true exactly when name is the rule's instance_name, price <= max_price,
\* running_count < max_instances and the rule's regions allow region.
C24_LaunchIsAllowed ==
    (driver = "launch" /\ query.op = "is_allowed") =>
        ( query.result = TRUE
            <=> /\ query.instance_name = launch.instance_name
                /\ ~(query.price > launch.max_price)
                /\ launch.max_instances - query.current_running_instances >= 1
                /\ query.region \in launch.regions.computed_set )

\* Queries at the two limits: the price equal to max_price is allowed, the
\* running count equal to max_instances is not.
C24_Witness ==
    /\ driver = "launch"
    /\ query.op = "is_allowed"
    /\ query.instance_name = launch.instance_name
    /\ query.region \in launch.regions.computed_set
    /\ \/ /\ query.price = launch.max_price
          /\ query.current_running_instances = launch.max_instances - 1
          /\ query.result = TRUE
       \/ /\ query.price < launch.max_price
          /\ query.current_running_instances = launch.max_instances
          /\ launch.max_instances > 0
          /\ query.result = FALSE

\* C25: once an AllowSet is constructed no is_allowed, get_computed_set or
\* log_allow_set call changes it; is_allowed(name) answers whether name is
\* in the computed set resolved at construction, and get_computed_set and
\* log_allow_set give that set.
C25_AllowSetImmutable ==
    [][ allowset.status = "ok" =>
          /\ allowset' = allowset
          /\ query'.op = "is_allowed" =>
                query'.result = (query'.name \in allowset.computed_set)
          /\ query'.op = "get_computed_set" =>
                query'.result = allowset.computed_set
          /\ query'.op = "log_allow_set" =>
                query'.logged = allowset.computed_set
      ]_vars

\* A second query of an AllowSet resolved from a wildcard pattern, about a
\* member of full_set that the pattern does not match.
C25_Witness ==
    /\ driver = "allow"
    /\ allowset.status = "ok"
    /\ \E value \in allowset.allow_set : HasWildcard(value) /\ value # <<"*">>
    /\ query.op = "is_allowed"
    /\ query.name \in allowset.full_set
    /\ query.result = FALSE

\* C28: over any sequence of Monitor.poll cycles session_start_time and
\* session_end_time are never both set; session_start_time is set exactly
\* when current_availabilities is non-empty, session_end_time exactly when
\* current_availabilities is empty and an offering was observed before, and
\* both are unset exactly when no offering was ever observed
\* (did_observe_instances, which turns true with the first non-empty
\* current_availabilities and stays true).
C28_MonitorSessionInvariant ==
    [][ LET Inv(m) ==
              LET nonempty == Keys(m.current_availabilities) # {}
              IN  /\ ~(m.session_start_time # None /\ m.session_end_time # None)
                  /\ m.session_start_time # None <=> nonempty
                  /\ m.session_end_time # None
                        <=> (~nonempty /\ m.did_observe_instances)
                  /\ (m.session_start_time = None /\ m.session_end_time = None)
                        <=> ~m.did_observe_instances
        IN  /\ Inv(monitor)
            /\ Inv(monitor')
            /\ monitor'.did_observe_instances
                  = ( \/ monitor.did_observe_instances
                      \/ Keys(monitor'.current_availabilities) # {} )
      ]_vars

\* The poll that ended a session which had lasted over several polls.
C28_Witness ==
    /\ driver = "monitor"
    /\ calls >= 3
    /\ monitor.did_observe_instances
    /\ Keys(monitor.current_availabilities) = {}
    /\ Keys(poll_out.removed) # {}
    /\ monitor.session_start_time = None
    /\ monitor.session_end_time = call.fetch_time
    /\ \E k \in Keys(poll_out.removed) :
          poll_out.removed[k].start_time < poll_out.removed[k].last_time_available

\* C29: after any sequence of Tracker.update calls session_start_time is
\* set whenever current_availabilities is non-empty, so render_to_console
\* can compute current_time - session_start_time whenever is_available is
\* true: it prints the 'Available Instances' line counted from
\* session_start_time.
C29_SessionStartSetWhileAvailable ==
    /\ Keys(tracker.current_availabilities) # {} => tracker.session_start_time # None
    /\ (query.op = "render_console_output" /\ IsSessionActive(tracker)) =>
          /\ ~query.rendered.out.raised
          /\ query.rendered.out.line = "Available Instances"
          /\ query.rendered.out.reference_time = tracker.session_start_time
          /\ query.rendered.out.reference_time # None

\* The tracker rendered in its second session.
C29_Witness ==
    /\ query.op = "render_console_output"
    /\ IsSessionActive(tracker)
    /\ tracker.session_end_time # None
    /\ tracker.session_start_time > tracker.session_end_time
    /\ query.rendered.out.line = "Available Instances"

\* C30: rendered after a session has ended and before the next non-empty
\* snapshot, the core Tracker gives the 'Last available at' line counted
\* from session_end_time; rendered before any session existed it gives the
\* 'Started at' line counted from the process start time.
C30_LastAvailableAfterSession ==
    (query.op = "render_console_output" /\ ~IsSessionActive(tracker)) =>
        /\ tracker.has_ever_observed_instances =>
              /\ query.rendered.out.line = "Last available at"
              /\ query.rendered.out.reference_time = tracker.session_end_time
        /\ ~tracker.has_ever_observed_instances =>
              /\ query.rendered.out.line = "Started at"
              /\ query.rendered.out.reference_time = TrackerStartTime

\* C26: when sending the email fails inside attempt_to_notify, for a pair
\* the notify AllowInstances allows, the failure is logged, nothing is
\* raised to the caller and attempt_to_notify returns False.
C26_NotifyFailureReturnsFalse ==
    ( /\ query.op = "attempt_to_notify"
      /\ AllowInstancesIsAllowed(allowinstances, query.instance_name, query.region)
      /\ query.notify_emails
      /\ ~query.smtp_works )
    => /\ query.outcome.raised = "none"
       /\ query.outcome.returned = "False"
       /\ query.outcome.logged_error

\* C27: attempt_to_notify(name, region) sends neither voice nor email and
\* returns False whenever the notify AllowInstances does not allow
\* (name, region), and returns True only for pairs it allows.
C27_NotifyGatedByAllowInstances ==
    query.op = "attempt_to_notify" =>
        /\ ~AllowInstancesIsAllowed(allowinstances, query.instance_name, query.region)
              => /\ ~query.outcome.voice
                 /\ ~query.outcome.email_attempted
                 /\ query.outcome.returned = "False"
        /\ query.outcome.returned = "True"
              => AllowInstancesIsAllowed(allowinstances, query.instance_name,
                                         query.region)

\* C31: on every poll that is not skipped, the console step prints a blank
\* line before the status line exactly when the poll has at least one new or
\* at least one removed availability, instances have ever been observed and
\* the poll is not the first poll.
C31_BlankLineOnChange ==
    [][(poll_out'.skipped = FALSE /\ calls' = calls + 1) =>
         (poll_out'.newline <=>
            /\ (Keys(poll_out'.new) # {} \/ Keys(poll_out'.removed) # {})
            /\ monitor'.did_observe_instances
            /\ ~monitor.is_first_poll)]_vars

\* C32: over the calls of _detect_new_regions that share one
\* new_logged_regions set, a region absent from the known table has raised
\* the 'New region observed' alert exactly once as soon as it has appeared,
\* in the call where it first appeared, and is in new_logged_regions from
\* then on; a region of the known table never raises an alert and is never
\* in new_logged_regions.
C32_NewRegionAlertedOnce ==
    /\ \A r \in KnownRegions :
         alert_log[r] = 0 /\ r \notin monitor.new_logged_regions
    /\ \A r \in Regions \ KnownRegions :
         /\ alert_log[r] <= 1
         /\ alert_log[r] = 1 <=> r \in monitor.new_logged_regions
         /\ (\E k \in Keys(monitor.current_availabilities) : k.region = r)
              => alert_log[r] = 1
    /\ poll_out.alerts \subseteq
         {k.region : k \in Keys(monitor.current_availabilities)} \ KnownRegions

\* A later call sees the region again, after a call without it, and the
\* alert count stays at one.
C32_Witness ==
    /\ calls = 3
    /\ alert_log[new_region] = 1
    /\ poll_out.skipped = FALSE
    /\ poll_out.alerts = {}
    /\ with_new_region \in Keys(monitor.current_availabilities)
    /\ with_new_region \in Keys(poll_out.new)

\* C33: in the main loop poll() and wait_for_next_request() strictly
\* alternate, starting with poll(), a skipped poll included; each return of
\* wait_for_next_request is at least request_interval_ms after the previous
\* return, and each fetch at least request_interval_ms after the previous
\* fetch.
C33_ThrottledAlternation ==
    LET tr  == loop.trace
        gap == api_throttle.request_interval_ms * NsPerMs
    IN  /\ \A i \in 1..Len(tr) : tr[i].op = (IF i % 2 = 1 THEN "poll" ELSE "wait")
        /\ loop.pc = (IF Len(tr) % 2 = 0 THEN "poll" ELSE "wait")
        /\ \A i \in 1..(Len(tr) - 2) : tr[i + 2].time_ns - tr[i].time_ns >= gap

\* Two returns of the wait with a skipped poll between them, the second
\* after a sleep that ended exactly one interval after the first.
C33_Witness ==
    /\ driver = "throttle"
    /\ Len(loop.trace) = 4
    /\ loop.trace[3].skipped
    /\ api_throttle.call_count = 2
    /\ loop.trace[4].time_ns - loop.trace[2].time_ns = api_throttle.request_interval_ms * NsPerMs

\* C34: a constructor call for a class that already has an instance returns
\* that instance, whatever its arguments, and changes nothing; a first call
\* returns a new instance built from its arguments; at no time do two
\* instances of one class exist, and an instance once created stays as the
\* first call built it.
C34_OneInstancePerClass ==
    [][/\ query'.op = "construct" =>
            IF query'.cls \in DOMAIN singleton._instances
            THEN /\ query'.returned = singleton._instances[query'.cls]
                 /\ singleton' = singleton
            ELSE /\ query'.returned = Len(singleton.objects) + 1
                 /\ singleton'.objects[query'.returned].args = query'.args
       /\ \A i, j \in 1..Len(singleton'.objects) :
            singleton'.objects[i].cls = singleton'.objects[j].cls => i = j
       /\ \A i \in 1..Len(singleton.objects) :
            /\ i <= Len(singleton'.objects)
            /\ singleton'.objects[i].cls = singleton.objects[i].cls
            /\ singleton'.objects[i].args = singleton.objects[i].args
            /\ singleton'._instances[singleton.objects[i].cls] = i]_vars

\* A later constructor call passed other arguments than the first and got
\* the first call's instance.
C34_Witness ==
    /\ query.op = "construct"
    /\ calls >= 2
    /\ singleton.objects[query.returned].cls = query.cls
    /\ singleton.objects[query.returned].args \in ConstructorArgs
    /\ singleton.objects[query.returned].args # query.args

\* C35: a call of SingletonMeta.initialize for a class not yet initialized
\* runs the instance's initialize with the given arguments and marks the
\* class initialized; a call for an initialized class changes nothing and
\* logs a warning; and is_initialized, once true, stays true over every
\* constructor and initialize call.
C35_InitializeOnce ==
    [][/\ query'.op = "initialize" =>
            IF ~SingletonIsInitialized(singleton, query'.cls)
            THEN /\ SingletonIsInitialized(singleton', query'.cls)
                 /\ singleton'.objects[singleton'._instances[query'.cls]].state = query'.args
                 /\ ~query'.warning
            ELSE /\ singleton' = singleton
                 /\ query'.warning
       /\ \A cls \in SingletonClasses :
            SingletonIsInitialized(singleton, cls) => SingletonIsInitialized(singleton', cls)]_vars

\* A second initialize with other arguments, on a class that a constructor
\* call created, left the arguments of the first initialize in place.
C35_Witness ==
    /\ query.op = "initialize"
    /\ query.warning
    /\ calls = 3
    /\ SingletonIsInitialized(singleton, query.cls)
    /\ singleton.objects[singleton._instances[query.cls]].state # query.args
    /\ singleton.objects[singleton._instances[query.cls]].args \in ConstructorArgs

\* C36: from_config_json_array fails when an entry's instance_name is not
\* in the instance universe, and when two entries carry the same
\* instance_name, whatever their max_price, max_instances and regions; when
\* it succeeds the set holds, for each configured instance_name, exactly one
\* LaunchInstance, the one of its entry.
C36_OneLaunchInstancePerName ==
    launchinstances.status # "none" =>
      LET cfg == config.config_json_array
      IN  /\ (\E i \in 1..Len(cfg) : cfg[i].instance_name \notin InstancesFullSet)
               => launchinstances.status = "error"
          /\ (\E i, j \in 1..Len(cfg) :
                 i # j /\ cfg[i].instance_name = cfg[j].instance_name)
               => launchinstances.status = "error"
          /\ launchinstances.status = "ok" =>
               /\ {r.instance_name : r \in launchinstances.launch_instances}
                    = {cfg[i].instance_name : i \in 1..Len(cfg)}
               /\ Cardinality(launchinstances.launch_instances) = Len(cfg)
               /\ \A i \in 1..Len(cfg) :
                    \E r \in launchinstances.launch_instances :
                       /\ r.instance_name = cfg[i].instance_name
                       /\ r.max_price = cfg[i].max_price
                       /\ r.max_instances = cfg[i].max_instances
                       /\ r.regions.allow_set = Range(cfg[i].regions)

\* A second entry repeats the instance_name of the first with another
\* max_price, max_instances and regions, and is refused as a duplicate.
C36_Witness ==
    /\ launchinstances.status = "error"
    /\ launchinstances.error = "duplicate"
    /\ Len(config.config_json_array) = 2
    /\ config.config_json_array[1].instance_name = config.config_json_array[2].instance_name
    /\ config.config_json_array[1].max_price # config.config_json_array[2].max_price
    /\ config.config_json_array[1].max_instances # config.config_json_array[2].max_instances
    /\ config.config_json_array[1].regions # config.config_json_array[2].regions

\* C37: after every update call made on both, the legacy Tracker and the
\* core Tracker hold the same new, updated, removed and current key sets.
C37_TrackersAgree ==
    /\ Keys(legacy_tracker.new_availabilities) = Keys(tracker.new_availabilities)
    /\ Keys(legacy_tracker.updated_availabilities) = Keys(tracker.updated_availabilities)
    /\ Keys(legacy_tracker.removed_availabilities) = Keys(tracker.removed_availabilities)
    /\ Keys(legacy_tracker.current_availabilities) = Keys(tracker.current_availabilities)

\* C38: an iteration of the legacy loop whose fetch failed logs no pair as
\* 'Not Available', removes no pair from instance_map and keeps every
\* recorded start_time.
C38_FailedFetchNoTransition ==
    [][(calls' = calls + 1 /\ call'.outcome # "ok") =>
         /\ legacy_loop'.instance_map = legacy_loop.instance_map
         /\ \A entry \in legacy_loop'.logged : entry[2] # "Not Available"]_vars

\* C39: whatever its arguments, _update_time_state takes one of its five
\* regular branches, never the 'Invalid state' branch, and a branch whose
\* body is "pass" returns the state it was given.
C39_NoInvalidState ==
    query.op = "_update_time_state" =>
        /\ query.returned.branch \in
             {"never_observed", "session_start", "session_end", "in_session", "after_session"}
        /\ query.returned.branch \in {"in_session", "after_session"} =>
             /\ query.returned.session_start_time = query.arguments.session_start_time
             /\ query.returned.session_end_time = query.arguments.session_end_time

\* The call was made with both session times set, a combination no poll
\* produces, and without availabilities after instances were observed.
C39_Witness ==
    /\ query.op = "_update_time_state"
    /\ query.arguments.did_observe_instances
    /\ ~query.arguments.current_availabilities
    /\ query.arguments.session_start_time # None
    /\ query.arguments.session_end_time # None
    /\ query.returned.branch = "after_session"

====
